---- MODULE Spec2Model ----
(***************************************************************************)
(* Model of the button-workflow engine InlineWorkflowManager               *)
(* (src/inline_workflow_manager.py) as driven by main.py: one user's       *)
(* context.user_data, the immutable workflow definition, and the three     *)
(* operations /start, /selections and a button callback.                   *)
(*                                                                         *)
(* Python values are encoded as follows.  A scalar (a JSON string or None) *)
(* is a TLA+ string, None being the reserved string "None"; the Python     *)
(* booleans kept inside a toggle dict are the reserved strings "True" and  *)
(* "False".  A value stored in selections is tagged with its Python type:  *)
(* [tag |-> "scalar"], [tag |-> "list"] or [tag |-> "dict"].  A dict is a  *)
(* function whose DOMAIN is its key set.  callback_data is the sequence    *)
(* of its ':'-separated parts (step keys hold no ':').                     *)
(***************************************************************************)
EXTENDS Integers, Sequences, FiniteSets, TLC

VARIABLES
    is_initialized,   \* InlineWorkflowManager.is_initialized
    workflow_steps,   \* ordered (key, config) pairs of the loaded workflow
    user_data,        \* context.user_data restricted to the workflow's key
    ret,              \* what the last operation returned to main.py
    last,             \* the last operation: its name, its token, user_data before it
    started,          \* history: the state record in user_data stems from /start
    ended             \* history: a started run got the completion summary since /start

vars == <<is_initialized, workflow_steps, user_data, ret, last, started, ended>>

\* Row and column indices carried by the option tokens range over 0..IdxBound.
IdxBound == 1

None == "None"
True == "True"
False == "False"

\* The single top-level key of the workflow file (self.workflow_name).
workflow_name == "workflow"

RADIO_UNSELECTED == "WHITE_BUTTON"
RADIO_SELECTED == "GREEN_CIRCLE"
CHECKBOX_UNSELECTED == "WHITE_SQUARE"
CHECKBOX_SELECTED == "CHECK_MARK"
TOGGLE_OFF == "RED_CIRCLE"
TOGGLE_ON == "GREEN_CIRCLE"
BACK_EMOJI == "LEFT_ARROW"
DONE_EMOJI == "CHECK_MARK"

--------------------------------------------------------------------------
(* Python helpers *)

\* bool(x) for a scalar
Truthy(x) == x \notin {None, False, ""}

\* not x, as a stored Python boolean
PyNot(x) == IF Truthy(x) THEN False ELSE True

\* d[k] = v on a dict
Put(d, k, v) == [x \in (DOMAIN d) \cup {k} |-> IF x = k THEN v ELSE d[x]]

\* d.get(k, default)
Get(d, k, default) == IF k \in DOMAIN d THEN d[k] ELSE default

\* the empty dict {}
EmptyDict == <<>>

Scalar(v) == [tag |-> "scalar", v |-> v]
List(items) == [tag |-> "list", items |-> items]
Dict(map) == [tag |-> "dict", map |-> map]

\* str(i) and int(s) on the index strings the tokens carry
IntStrings == <<"-3", "-2", "-1", "0", "1", "2", "3">>
IntStr(i) == IntStrings[i + 4]
IsIntStr(s) == \E i \in 1..Len(IntStrings) : IntStrings[i] = s
ParseInt(s) == (CHOOSE i \in 1..Len(IntStrings) : IntStrings[i] = s) - 4

\* seq[i] with Python's negative indices; InRange is false where IndexError is raised
InRange(seq, i) == -Len(seq) <= i /\ i < Len(seq)
PyIndex(seq, i) == IF i >= 0 THEN seq[i + 1] ELSE seq[Len(seq) + i + 1]

\* list.remove(v): drops the first occurrence
RECURSIVE ListRemove(_, _)
ListRemove(items, v) ==
    IF items = <<>> THEN <<>>
    ELSE IF Head(items) = v THEN Tail(items)
    ELSE <<Head(items)>> \o ListRemove(Tail(items), v)

ListHas(items, v) == \E i \in 1..Len(items) : items[i] = v

RECURSIVE Flatten(_)
Flatten(rows) == IF rows = <<>> THEN <<>> ELSE Head(rows) \o Flatten(Tail(rows))

--------------------------------------------------------------------------
(* Workflow definitions: the content of workflow_config.json *)

\* A button config; a key the JSON leaves out reads None (button_config.get),
\* skipSteps 0 and initialState False being the defaults of the code.
Button(type, value, radioGroup, skipSteps, initialState) ==
    [type |-> type, value |-> value, radioGroup |-> radioGroup,
     skipSteps |-> skipSteps, initialState |-> initialState]

\* a button without "type"
Plain(value) == Button(None, value, None, 0, False)
Radio(group, value) == Button("radio", value, group, 0, False)
Checkbox(value) == Button("checkbox", value, None, 0, False)
Toggle(value, initialState) == Button("toggle", value, None, 0, initialState)
Skip(value, skipSteps) == Button("skip", value, None, skipSteps, False)
Finish(value) == Button("finish", value, None, 0, False)

Step(key, completionType, backButton, options) ==
    [key |-> key,
     cfg |-> [description |-> key, completionType |-> completionType,
              backButton |-> backButton, options |-> options]]

\* Scenario A of the specification: intro / color / done.
ScenarioA == <<
    Step("intro", "auto", FALSE, << <<Plain("value0"), Plain("value1")>> >>),
    Step("color", "manual", TRUE, << <<Radio("g", "red"), Radio("g", "blue")>> >>),
    Step("done", "auto", TRUE, << <<Finish("finishValue")>> >>) >>

\* Scenario B of the specification: four steps, a skip button with skipSteps 1
\* on the first; a manual radio step that also holds a plain and a skip
\* button; a skip that runs past the last step.
ScenarioB == <<
    Step("s0", "auto", TRUE, << <<Skip("any", 1), Plain("p0")>> >>),
    Step("s1", "manual", TRUE,
         << <<Radio("g", "r1"), Radio("g", "r2")>>, <<Plain("p1"), Skip("sk", 0)>> >>),
    Step("s2", None, TRUE, << <<Plain("p2"), Skip("all", 2)>> >>),
    Step("s3", "auto", TRUE, << <<Plain("p3"), Finish("f3")>> >>) >>

\* A workflow that opens on a manual radio step; radio buttons without a
\* value or without a group; a group none of whose buttons has a value.
ScenarioC == <<
    Step("m0", "manual", FALSE,
         << <<Radio("g", None), Radio("g", "a")>>, <<Radio("h", "b"), Radio(None, "x")>> >>),
    Step("m1", "manual", TRUE,
         << <<Radio("n", None), Checkbox("c")>>, <<Skip("sk", 0), Finish(None)>> >>),
    Step("m2", "manual", TRUE,
         << <<Radio("g", "a"), Toggle("t", False)>>, <<Plain("p")>> >>) >>

\* Checkboxes and toggles in a manual step without radio groups, then an auto
\* step (completionType left out) that holds a radio button.
ScenarioD == <<
    Step("d0", "manual", FALSE,
         << <<Checkbox("c1"), Checkbox("c2")>>, <<Toggle("t1", True), Plain("p")>> >>),
    Step("d1", None, TRUE, << <<Plain("p1"), Radio("q", "v")>> >>) >>

\* A workflow file whose workflow has no steps.
NoSteps == <<>>

Workflows == {ScenarioA, ScenarioB, ScenarioC, ScenarioD, NoSteps}

--------------------------------------------------------------------------
(* InlineWorkflowManager: definition lookups *)

\* self._step_keys
_step_keys == [i \in 1..Len(workflow_steps) |-> workflow_steps[i].key]

\* self._step_keys.index(k), 0-based; -1 stands for ValueError
KeyIndex(k) ==
    IF \E i \in 1..Len(_step_keys) : _step_keys[i] = k
    THEN (CHOOSE i \in 1..Len(_step_keys) :
              _step_keys[i] = k /\ \A j \in 1..(i - 1) : _step_keys[j] # k) - 1
    ELSE -1

\* whether self.workflow_steps.get(step_key) is a (non-empty) config
HasStepConfig(step_key) == KeyIndex(step_key) >= 0

_get_step_config(step_key) == workflow_steps[KeyIndex(step_key) + 1].cfg

_get_initial_step_key == IF Len(_step_keys) = 0 THEN None ELSE _step_keys[1]

\* variant: the step after the current one, skip_steps not added
_get_next_step_key_NoSkip(current_step_key, skip_steps) ==
    LET current_index == KeyIndex(current_step_key)
        next_index == current_index + 1
    IN  IF current_index < 0 THEN None
        ELSE IF 0 <= next_index /\ next_index < Len(_step_keys)
             THEN _step_keys[next_index + 1]
             ELSE None

\* variant: past the last step the lookup names a step the definition does not
\* declare instead of returning None
_get_next_step_key_PastEnd(current_step_key, skip_steps) ==
    LET current_index == KeyIndex(current_step_key)
        next_index == current_index + 1 + skip_steps
    IN  IF current_index < 0 THEN None
        ELSE IF 0 <= next_index /\ next_index < Len(_step_keys)
             THEN _step_keys[next_index + 1]
             ELSE "past_end"

\* variant: past the last step the lookup starts over at the first step
_get_next_step_key_Wraps(current_step_key, skip_steps) ==
    LET current_index == KeyIndex(current_step_key)
        next_index == current_index + 1 + skip_steps
    IN  IF current_index < 0 THEN None
        ELSE IF 0 <= next_index /\ next_index < Len(_step_keys)
             THEN _step_keys[next_index + 1]
             ELSE _step_keys[1]

_get_next_step_key(current_step_key, skip_steps) ==
    LET current_index == KeyIndex(current_step_key)
        next_index == current_index + 1 + skip_steps
    IN  IF current_index < 0 THEN None
        ELSE IF 0 <= next_index /\ next_index < Len(_step_keys)
             THEN _step_keys[next_index + 1]
             ELSE None

\* variant: back returns to the first declared step
_get_previous_step_key_First(current_step_key) ==
    LET current_index == KeyIndex(current_step_key)
        prev_index == current_index - 1
    IN  IF current_index < 0 THEN None
        ELSE IF prev_index >= 0 THEN _step_keys[1] ELSE None

\* variant: no test of prev_index, so that index -1 reads the last key, as a
\* Python list does
_get_previous_step_key_Wraps(current_step_key) ==
    LET current_index == KeyIndex(current_step_key)
        prev_index == current_index - 1
    IN  IF current_index < 0 THEN None
        ELSE PyIndex(_step_keys, prev_index)

_get_previous_step_key(current_step_key) ==
    LET current_index == KeyIndex(current_step_key)
        prev_index == current_index - 1
    IN  IF current_index < 0 THEN None
        ELSE IF prev_index >= 0 THEN _step_keys[prev_index + 1] ELSE None

\* self._radio_groups_per_step.get(step_key, [])
_radio_groups_per_step(step_key) ==
    IF ~HasStepConfig(step_key) THEN {}
    ELSE LET buttons == Flatten(_get_step_config(step_key).options)
         IN  {buttons[i].radioGroup : i \in {j \in 1..Len(buttons) :
                  buttons[j].type = "radio" /\ buttons[j].radioGroup # None}}

\* step_config.get('completionType', 'auto')
CompletionType(step_config) ==
    IF step_config.completionType = None THEN "auto" ELSE step_config.completionType

--------------------------------------------------------------------------
(* InlineWorkflowManager: user state kept in context.user_data.            *)
(* Each operator below takes user_data as the code finds it (ud) and       *)
(* yields user_data as the code leaves it.                                 *)

\* context.user_data after _get_workflow_state_from_context(context)
_get_workflow_state_from_context(ud) ==
    IF ~is_initialized THEN ud
    ELSE IF workflow_name \notin DOMAIN ud
         THEN Put(ud, workflow_name,
                  [current_step |-> _get_initial_step_key, selections |-> EmptyDict])
         ELSE ud

\* the state dict that _get_workflow_state_from_context(context) returns
WorkflowState(ud) ==
    IF ~is_initialized THEN [current_step |-> None, selections |-> EmptyDict]
    ELSE _get_workflow_state_from_context(ud)[workflow_name]

_get_user_current_step_key(ud) == WorkflowState(ud).current_step

_set_user_step(ud, step_key) ==
    [_get_workflow_state_from_context(ud) EXCEPT ![workflow_name].current_step = step_key]

\* workflow_state['selections'].get(step_key)
_get_selection_value(ud, step_key) ==
    Get(WorkflowState(ud).selections, step_key, Scalar(None))

\* workflow_state['selections'][step_key] = value
StoreSelection(ud, step_key, value) ==
    [_get_workflow_state_from_context(ud) EXCEPT
        ![workflow_name].selections = Put(@, step_key, value)]

\* variant: a toggle that is not stored yet counts as off, initialState unread
_update_selection_ToggleFromOff(ud, step_key, button_config) ==
    LET selection_value == button_config.value
        button_type == button_config.type
        radio_group == button_config.radioGroup
        current_selection_state == _get_selection_value(ud, step_key)
        as_dict == IF current_selection_state.tag = "dict"
                   THEN current_selection_state.map ELSE EmptyDict
        as_list == IF current_selection_state.tag = "list"
                   THEN current_selection_state.items ELSE <<>>
    IN  IF button_type \in {None, "skip"}
        THEN StoreSelection(ud, step_key, Scalar(selection_value))
        ELSE IF button_type = "radio"
        THEN IF Truthy(radio_group)
             THEN StoreSelection(ud, step_key, Dict(Put(as_dict, radio_group, selection_value)))
             ELSE _get_workflow_state_from_context(ud)
        ELSE IF button_type = "checkbox"
        THEN StoreSelection(ud, step_key,
                 List(IF ListHas(as_list, selection_value)
                      THEN ListRemove(as_list, selection_value)
                      ELSE Append(as_list, selection_value)))
        ELSE IF button_type = "toggle"
        THEN LET current_state_for_value == Get(as_dict, selection_value, False)
             IN  StoreSelection(ud, step_key,
                     Dict(Put(as_dict, selection_value, PyNot(current_state_for_value))))
        ELSE _get_workflow_state_from_context(ud)

\* variant: pressing the radio button that is selected clears its group
_update_selection_RadioToggles(ud, step_key, button_config) ==
    LET selection_value == button_config.value
        button_type == button_config.type
        radio_group == button_config.radioGroup
        current_selection_state == _get_selection_value(ud, step_key)
        as_dict == IF current_selection_state.tag = "dict"
                   THEN current_selection_state.map ELSE EmptyDict
        as_list == IF current_selection_state.tag = "list"
                   THEN current_selection_state.items ELSE <<>>
    IN  IF button_type \in {None, "skip"}
        THEN StoreSelection(ud, step_key, Scalar(selection_value))
        ELSE IF button_type = "radio"
        THEN IF Truthy(radio_group)
             THEN StoreSelection(ud, step_key,
                      Dict(Put(as_dict, radio_group,
                               IF Get(as_dict, radio_group, None) = selection_value
                               THEN None ELSE selection_value)))
             ELSE _get_workflow_state_from_context(ud)
        ELSE IF button_type = "checkbox"
        THEN StoreSelection(ud, step_key,
                 List(IF ListHas(as_list, selection_value)
                      THEN ListRemove(as_list, selection_value)
                      ELSE Append(as_list, selection_value)))
        ELSE IF button_type = "toggle"
        THEN LET current_state_for_value ==
                     Get(as_dict, selection_value, button_config.initialState)
             IN  StoreSelection(ud, step_key,
                     Dict(Put(as_dict, selection_value, PyNot(current_state_for_value))))
        ELSE _get_workflow_state_from_context(ud)
\* variant: a radio button without radioGroup takes the path of a plain button
_update_selection_GrouplessSingle(ud, step_key, button_config) ==
    LET selection_value == button_config.value
        button_type == button_config.type
        radio_group == button_config.radioGroup
        current_selection_state == _get_selection_value(ud, step_key)
        as_dict == IF current_selection_state.tag = "dict"
                   THEN current_selection_state.map ELSE EmptyDict
        as_list == IF current_selection_state.tag = "list"
                   THEN current_selection_state.items ELSE <<>>
    IN  IF button_type \in {None, "skip"} \/ (button_type = "radio" /\ ~Truthy(radio_group))
        THEN StoreSelection(ud, step_key, Scalar(selection_value))
        ELSE IF button_type = "radio"
        THEN StoreSelection(ud, step_key, Dict(Put(as_dict, radio_group, selection_value)))
        ELSE IF button_type = "checkbox"
        THEN StoreSelection(ud, step_key,
                 List(IF ListHas(as_list, selection_value)
                      THEN ListRemove(as_list, selection_value)
                      ELSE Append(as_list, selection_value)))
        ELSE IF button_type = "toggle"
        THEN LET current_state_for_value ==
                     Get(as_dict, selection_value, button_config.initialState)
             IN  StoreSelection(ud, step_key,
                     Dict(Put(as_dict, selection_value, PyNot(current_state_for_value))))
        ELSE _get_workflow_state_from_context(ud)

_update_selection(ud, step_key, button_config) ==
    LET selection_value == button_config.value
        button_type == button_config.type
        radio_group == button_config.radioGroup
        current_selection_state == _get_selection_value(ud, step_key)
        as_dict == IF current_selection_state.tag = "dict"
                   THEN current_selection_state.map ELSE EmptyDict
        as_list == IF current_selection_state.tag = "list"
                   THEN current_selection_state.items ELSE <<>>
    IN  IF button_type \in {None, "skip"}
        THEN StoreSelection(ud, step_key, Scalar(selection_value))
        ELSE IF button_type = "radio"
        THEN IF Truthy(radio_group)
             THEN StoreSelection(ud, step_key, Dict(Put(as_dict, radio_group, selection_value)))
             ELSE _get_workflow_state_from_context(ud)
        ELSE IF button_type = "checkbox"
        THEN StoreSelection(ud, step_key,
                 List(IF ListHas(as_list, selection_value)
                      THEN ListRemove(as_list, selection_value)
                      ELSE Append(as_list, selection_value)))
        ELSE IF button_type = "toggle"
        THEN LET current_state_for_value ==
                     Get(as_dict, selection_value, button_config.initialState)
             IN  StoreSelection(ud, step_key,
                     Dict(Put(as_dict, selection_value, PyNot(current_state_for_value))))
        ELSE _get_workflow_state_from_context(ud)

\* variant: a group counts as selected as soon as it has an entry, None or not
_validate_manual_step_completion_AnyEntry(ud, step_key) ==
    LET step_config == _get_step_config(step_key)
        required_radio_groups == _radio_groups_per_step(step_key)
        user_selections == _get_selection_value(ud, step_key)
    IN  IF step_config.completionType # "manual" THEN TRUE
        ELSE IF required_radio_groups = {} THEN TRUE
        ELSE IF user_selections.tag # "dict" THEN FALSE
        ELSE \A group \in required_radio_groups : group \in DOMAIN user_selections.map

_validate_manual_step_completion(ud, step_key) ==
    LET step_config == _get_step_config(step_key)
        required_radio_groups == _radio_groups_per_step(step_key)
        user_selections == _get_selection_value(ud, step_key)
    IN  IF step_config.completionType # "manual" THEN TRUE
        ELSE IF required_radio_groups = {} THEN TRUE
        ELSE IF user_selections.tag # "dict" THEN FALSE
        ELSE \A group \in required_radio_groups :
                 ~(group \notin DOMAIN user_selections.map
                   \/ user_selections.map[group] = None)

\* variant: the state record is kept
reset_user_state_Keep(ud) == ud

reset_user_state(ud) ==
    IF is_initialized /\ workflow_name \in DOMAIN ud THEN EmptyDict ELSE ud

\* workflow_state['selections'].copy()
get_user_selections(ud) == WorkflowState(ud).selections

--------------------------------------------------------------------------
(* InlineWorkflowManager._generate_keyboard_and_text *)

NoMarkup == [kind |-> "None"]
InlineKeyboardMarkup(keyboard_rows) ==
    [kind |-> "InlineKeyboardMarkup", inline_keyboard |-> keyboard_rows]
InlineKeyboardButton(emoji, callback_data) ==
    [emoji |-> emoji, callback_data |-> callback_data]

MSG_START_NOT_INITIALIZED == "Workflow manager failed to initialize. Please contact support."
MSG_CLICK_NOT_INITIALIZED == "Workflow manager not initialized. Cannot process click."
MSG_STATE_LOST == "Your workflow state was lost. Please start again with /start."
MSG_REQUIRED == "Please make all required selections before proceeding."
MSG_INVALID_BUTTON_DATA == "An internal error occurred (invalid button data)."
MSG_STEP_CONFIG_MISSING == "An internal error occurred (step configuration missing). Please restart."
MSG_PROCESSING_ERROR == "An internal error occurred while processing your request."
MSG_COMPLETED == "Workflow completed! Here are your selections:"
MSG_NO_CURRENT_CONFIG == "An internal error occurred (step config missing for current step)."
MSG_NO_UI == "An error occurred generating the next step's UI."
MSG_SELECTIONS == "Your current selections:"
MSG_NO_SELECTIONS == "No selections made yet."

\* variant: every radio button of a group overwrites the group's value, so the
\* last declared one wins and a recorded choice is lost
RECURSIVE PreSelect_Overwrite(_, _)
PreSelect_Overwrite(buttons, acc) ==
    IF buttons = <<>> THEN acc
    ELSE LET button_config == Head(buttons)
             group == button_config.radioGroup
             button_value == button_config.value
         IN  IF button_config.type = "radio" /\ group # None
             THEN PreSelect_Overwrite(Tail(buttons),
                      [temp |-> Put(acc.temp, group, button_value), made |-> TRUE])
             ELSE PreSelect_Overwrite(Tail(buttons), acc)

\* variant: a group counts as unselected while its value is not the button's
\* own value, and the loop stops at the first pre-selection it makes
RECURSIVE PreSelect_Rotate(_, _)
PreSelect_Rotate(buttons, acc) ==
    IF buttons = <<>> \/ acc.made THEN acc
    ELSE LET button_config == Head(buttons)
             group == button_config.radioGroup
             button_value == button_config.value
         IN  IF /\ button_config.type = "radio"
                /\ group # None
                /\ (group \notin DOMAIN acc.temp \/ acc.temp[group] # button_value)
             THEN PreSelect_Rotate(Tail(buttons),
                      [temp |-> Put(acc.temp, group, button_value), made |-> TRUE])
             ELSE PreSelect_Rotate(Tail(buttons), acc)

\* The pre-selection loop over the step's buttons in declaration order:
\* acc is [temp |-> temp_selections_update, made |-> initial_selection_made].
RECURSIVE PreSelect(_, _)
PreSelect(buttons, acc) ==
    IF buttons = <<>> THEN acc
    ELSE LET button_config == Head(buttons)
             group == button_config.radioGroup
             button_value == button_config.value
         IN  IF /\ button_config.type = "radio"
                /\ group # None
                /\ (group \notin DOMAIN acc.temp \/ acc.temp[group] = None)
             THEN PreSelect(Tail(buttons),
                      [temp |-> Put(acc.temp, group, button_value), made |-> TRUE])
             ELSE PreSelect(Tail(buttons), acc)

\* "if not isinstance(user_selections_for_step, dict)": the step's entry becomes {}
EnsureDict(ud, current_step_key) ==
    IF _get_selection_value(ud, current_step_key).tag # "dict"
    THEN StoreSelection(ud, current_step_key, Dict(EmptyDict))
    ELSE ud

\* variant: the defaults are shown but the updated copy is never saved back
SavePreSelection_ViewOnly(ud, current_step_key, acc) == ud

\* "if initial_selection_made": the updated copy is saved back
SavePreSelection(ud, current_step_key, acc) ==
    IF acc.made THEN StoreSelection(ud, current_step_key, Dict(acc.temp)) ELSE ud

\* the loop over the copy of the step's dict, then the save
PreSelectAndSave(ud, current_step_key) ==
    SavePreSelection(ud, current_step_key,
        PreSelect(Flatten(_get_step_config(current_step_key).options),
                  [temp |-> _get_selection_value(ud, current_step_key).map,
                   made |-> FALSE]))

\* user_data after the radio pre-selection block of the current step
RadioPreSelection(ud, current_step_key) ==
    IF /\ CompletionType(_get_step_config(current_step_key)) = "manual"
       /\ _radio_groups_per_step(current_step_key) # {}
    THEN PreSelectAndSave(EnsureDict(ud, current_step_key), current_step_key)
    ELSE ud

\* the emoji put before buttonName
ButtonEmoji(button_config, user_selections_for_step) ==
    LET button_value == button_config.value
        button_type == button_config.type
    IN  IF button_type = "radio"
        THEN IF /\ user_selections_for_step.tag = "dict"
                /\ button_config.radioGroup # None
                /\ Get(user_selections_for_step.map, button_config.radioGroup, None)
                       = button_value
             THEN RADIO_SELECTED ELSE RADIO_UNSELECTED
        ELSE IF button_type = "checkbox"
        THEN IF /\ user_selections_for_step.tag = "list"
                /\ ListHas(user_selections_for_step.items, button_value)
             THEN CHECKBOX_SELECTED ELSE CHECKBOX_UNSELECTED
        ELSE IF button_type = "toggle"
        THEN LET current_state ==
                     IF user_selections_for_step.tag = "dict"
                     THEN Get(user_selections_for_step.map, button_value,
                              button_config.initialState)
                     ELSE button_config.initialState
             IN  IF Truthy(current_state) THEN TOGGLE_ON ELSE TOGGLE_OFF
        ELSE ""

\* variant: the Go Back row is added whenever a previous step exists, the
\* step's backButton unread
KeyboardRows_BackAlways(current_step_key, step_config, user_selections_for_step) ==
    LET options == step_config.options
        option_rows ==
            [row_index \in 1..Len(options) |->
                [button_index \in 1..Len(options[row_index]) |->
                    InlineKeyboardButton(
                        ButtonEmoji(options[row_index][button_index],
                                    user_selections_for_step),
                        <<current_step_key, IntStr(row_index - 1),
                          IntStr(button_index - 1)>>)]]
        done_rows ==
            IF CompletionType(step_config) = "manual"
            THEN << <<InlineKeyboardButton(DONE_EMOJI, <<"done", current_step_key>>)>> >>
            ELSE <<>>
        back_rows ==
            IF Truthy(_get_previous_step_key(current_step_key))
            THEN << <<InlineKeyboardButton(BACK_EMOJI, <<"back", current_step_key>>)>> >>
            ELSE <<>>
    IN  option_rows \o done_rows \o back_rows

\* keyboard_rows: option rows, then the Done row, then the Go Back row
KeyboardRows(current_step_key, step_config, user_selections_for_step) ==
    LET options == step_config.options
        option_rows ==
            [row_index \in 1..Len(options) |->
                [button_index \in 1..Len(options[row_index]) |->
                    InlineKeyboardButton(
                        ButtonEmoji(options[row_index][button_index],
                                    user_selections_for_step),
                        <<current_step_key, IntStr(row_index - 1),
                          IntStr(button_index - 1)>>)]]
        done_rows ==
            IF CompletionType(step_config) = "manual"
            THEN << <<InlineKeyboardButton(DONE_EMOJI, <<"done", current_step_key>>)>> >>
            ELSE <<>>
        back_rows ==
            IF step_config.backButton /\ Truthy(_get_previous_step_key(current_step_key))
            THEN << <<InlineKeyboardButton(BACK_EMOJI, <<"back", current_step_key>>)>> >>
            ELSE <<>>
    IN  option_rows \o done_rows \o back_rows

\* the keyboard and description of the step, from the state pre-selection left
BuildUi(ud, current_step_key) ==
    [ud |-> ud,
     reply_markup |-> InlineKeyboardMarkup(
         KeyboardRows(current_step_key, _get_step_config(current_step_key),
                      _get_selection_value(ud, current_step_key))),
     text |-> _get_step_config(current_step_key).description]

\* the body of _generate_keyboard_and_text once the state dict is there
GenerateForStep(ud, current_step_key) ==
    IF ~HasStepConfig(current_step_key)
    THEN [ud |-> ud, reply_markup |-> NoMarkup, text |-> MSG_NO_CURRENT_CONFIG]
    ELSE BuildUi(RadioPreSelection(ud, current_step_key), current_step_key)

GenerateWithState(ud) == GenerateForStep(ud, _get_user_current_step_key(ud))

\* [ud |-> user_data afterwards, reply_markup, text]
_generate_keyboard_and_text(ud) ==
    GenerateWithState(_get_workflow_state_from_context(ud))

--------------------------------------------------------------------------
(* InlineWorkflowManager.start_workflow, process_callback_and_get_response *)

\* what an operation hands back, with the user_data it leaves
Response(ud, response_text, reply_markup, is_final_message, final_selections) ==
    [ud |-> ud, text |-> response_text, reply_markup |-> reply_markup,
     is_final_message |-> is_final_message, final_selections |-> final_selections]

\* an exception that leaves the operation uncaught: nothing is handed back and
\* user_data stays as the operation left it when the exception was raised
Raise(ud, exception) ==
    [ud |-> ud, text |-> None, reply_markup |-> NoMarkup, is_final_message |-> FALSE,
     final_selections |-> EmptyDict, raised |-> exception]

\* a generated (reply_markup, text) handed back as it is, not final
UiResponse(ui) == Response(ui.ud, ui.text, ui.reply_markup, FALSE, EmptyDict)

\* a generated keyboard handed back under an error message
UiErrorResponse(ui, message) == Response(ui.ud, message, ui.reply_markup, FALSE, EmptyDict)

start_workflow(ud) ==
    IF ~is_initialized
    THEN Response(ud, MSG_START_NOT_INITIALIZED, NoMarkup, FALSE, EmptyDict)
    ELSE UiResponse(_generate_keyboard_and_text(reset_user_state(ud)))

\* "return self._generate_keyboard_and_text(context) + (False,)"
RenderCurrent(ud) == UiResponse(_generate_keyboard_and_text(ud))

\* "return escape_markdown(message), self._generate_keyboard_and_text(context)[0], False"
RenderWithError(ud, message) == UiErrorResponse(_generate_keyboard_and_text(ud), message)

\* the "workflow is ongoing" branch of the tail, given the generated UI
OngoingResponse(ui, message_override_text) ==
    LET response_text == IF message_override_text # None
                         THEN message_override_text ELSE ui.text
    IN  IF ui.reply_markup = NoMarkup /\ ~Truthy(response_text)
        THEN Response(ui.ud, MSG_NO_UI, NoMarkup, FALSE, EmptyDict)
        ELSE Response(ui.ud, response_text, ui.reply_markup, FALSE, EmptyDict)

\* The tail of process_callback_and_get_response: the summary or the next UI.
PrepareResponse(ud, message_override_text, is_workflow_end) ==
    IF is_workflow_end
    THEN Response(_get_workflow_state_from_context(ud), MSG_COMPLETED, NoMarkup, TRUE,
                  get_user_selections(ud))
    ELSE OngoingResponse(_generate_keyboard_and_text(ud), message_override_text)

\* callback_data.startswith(prefix + ":")
StartsWith(callback_data, prefix) == Len(callback_data) >= 2 /\ callback_data[1] = prefix

HandleBack(ud, current_step_key, callback_data) ==
    LET back_from_step == callback_data[2]
        previous_step_key == _get_previous_step_key(current_step_key)
    IN  IF back_from_step # current_step_key THEN RenderCurrent(ud)
        ELSE IF Truthy(previous_step_key)
        THEN PrepareResponse(_set_user_step(ud, previous_step_key), None, FALSE)
        ELSE PrepareResponse(ud, None, FALSE)

\* variant: done advances without asking the validator
HandleDone_Unchecked(ud, current_step_key, callback_data) ==
    LET done_from_step == callback_data[2]
        next_step_key_actual == _get_next_step_key(current_step_key, 0)
    IN  IF done_from_step # current_step_key THEN RenderCurrent(ud)
        ELSE PrepareResponse(_set_user_step(ud, next_step_key_actual), None,
                             next_step_key_actual = None)

\* variant: an accepted done on the last step reports the end of the workflow
\* and leaves the pointer on the step, as the finish branch does
HandleDone_EndKeepsStep(ud, current_step_key, callback_data) ==
    LET done_from_step == callback_data[2]
        next_step_key_actual == _get_next_step_key(current_step_key, 0)
    IN  IF done_from_step # current_step_key THEN RenderCurrent(ud)
        ELSE IF ~HasStepConfig(current_step_key) THEN Raise(ud, "AttributeError")
        ELSE IF _validate_manual_step_completion(ud, current_step_key)
        THEN IF next_step_key_actual = None
             THEN PrepareResponse(ud, None, TRUE)
             ELSE PrepareResponse(_set_user_step(ud, next_step_key_actual), None, FALSE)
        ELSE PrepareResponse(ud, MSG_REQUIRED, FALSE)

\* The validator reads step_config.get('completionType') of the looked-up
\* config: for a key without config the lookup gives None and the attribute
\* access raises AttributeError, outside any try block of the handler.
HandleDone(ud, current_step_key, callback_data) ==
    LET done_from_step == callback_data[2]
        next_step_key_actual == _get_next_step_key(current_step_key, 0)
    IN  IF done_from_step # current_step_key THEN RenderCurrent(ud)
        ELSE IF ~HasStepConfig(current_step_key) THEN Raise(ud, "AttributeError")
        ELSE IF _validate_manual_step_completion(ud, current_step_key)
        THEN PrepareResponse(_set_user_step(ud, next_step_key_actual), None,
                             next_step_key_actual = None)
        ELSE PrepareResponse(ud, MSG_REQUIRED, FALSE)

\* variant: radio, checkbox and toggle buttons fall through to the default
\* branch, which advances in an auto step
ClickButton_StatefulAdvances(ud, current_step_key, step_config, button_config) ==
    LET button_type == button_config.type
        skip_steps == button_config.skipSteps
        step_completion_type == CompletionType(step_config)
        recorded == _update_selection(ud, current_step_key, button_config)
    IN  IF button_type = "finish"
        THEN PrepareResponse(recorded, None, TRUE)
        ELSE IF button_type = "skip"
        THEN LET next_step_key_actual == _get_next_step_key(current_step_key, skip_steps)
             IN  PrepareResponse(_set_user_step(recorded, next_step_key_actual), None,
                                 next_step_key_actual = None)
        ELSE IF step_completion_type = "auto"
        THEN LET next_step_key_actual == _get_next_step_key(current_step_key, 0)
             IN  PrepareResponse(_set_user_step(recorded, next_step_key_actual), None,
                                 next_step_key_actual = None)
        ELSE PrepareResponse(recorded, None, FALSE)

\* The state update and navigation of an option button found at the indices.
ClickButton(ud, current_step_key, step_config, button_config) ==
    LET button_type == button_config.type
        skip_steps == button_config.skipSteps
        step_completion_type == CompletionType(step_config)
        recorded == _update_selection(ud, current_step_key, button_config)
    IN  IF button_type = "finish"
        THEN PrepareResponse(recorded, None, TRUE)
        ELSE IF button_type = "skip"
        THEN LET next_step_key_actual == _get_next_step_key(current_step_key, skip_steps)
             IN  PrepareResponse(_set_user_step(recorded, next_step_key_actual), None,
                                 next_step_key_actual = None)
        ELSE IF button_type \in {"radio", "checkbox", "toggle"}
        THEN PrepareResponse(recorded, None, FALSE)
        ELSE IF step_completion_type = "auto"
        THEN LET next_step_key_actual == _get_next_step_key(current_step_key, 0)
             IN  PrepareResponse(_set_user_step(recorded, next_step_key_actual), None,
                                 next_step_key_actual = None)
        ELSE PrepareResponse(recorded, None, FALSE)

HandleOption(ud, current_step_key, callback_data) ==
    LET parts == callback_data
    IN  IF Len(parts) # 3 THEN RenderWithError(ud, MSG_INVALID_BUTTON_DATA)
        ELSE IF ~IsIntStr(parts[2]) \/ ~IsIntStr(parts[3])
        THEN RenderWithError(ud, MSG_PROCESSING_ERROR)          \* ValueError
        ELSE LET clicked_step_key == parts[1]
                 row_index == ParseInt(parts[2])
                 button_index == ParseInt(parts[3])
             IN  IF clicked_step_key # current_step_key THEN RenderCurrent(ud)
                 ELSE IF ~HasStepConfig(current_step_key)
                 THEN Response(reset_user_state(ud), MSG_STEP_CONFIG_MISSING, NoMarkup,
                               TRUE, EmptyDict)
                 ELSE LET step_config == _get_step_config(current_step_key)
                      IN  IF ~InRange(step_config.options, row_index)
                          THEN RenderWithError(ud, MSG_PROCESSING_ERROR)   \* IndexError
                          ELSE LET row_config == PyIndex(step_config.options, row_index)
                               IN  IF ~InRange(row_config, button_index)
                                   THEN RenderWithError(ud, MSG_PROCESSING_ERROR)
                                   ELSE ClickButton(ud, current_step_key, step_config,
                                            PyIndex(row_config, button_index))

\* process_callback_and_get_response once the current step key is read
Dispatch(ud, current_step_key, callback_data) ==
    IF ~Truthy(current_step_key)
    THEN Response(reset_user_state(ud), MSG_STATE_LOST, NoMarkup, TRUE, EmptyDict)
    ELSE IF StartsWith(callback_data, "back")
    THEN HandleBack(ud, current_step_key, callback_data)
    ELSE IF StartsWith(callback_data, "done")
    THEN HandleDone(ud, current_step_key, callback_data)
    ELSE HandleOption(ud, current_step_key, callback_data)

DispatchWithState(ud, callback_data) ==
    Dispatch(ud, _get_user_current_step_key(ud), callback_data)

process_callback_and_get_response(ud, callback_data) ==
    IF ~is_initialized
    THEN Response(ud, MSG_CLICK_NOT_INITIALIZED, NoMarkup, TRUE, EmptyDict)
    ELSE DispatchWithState(_get_workflow_state_from_context(ud), callback_data)

\* main.show_selections: get_user_selections(context) and the text built from it
show_selections(ud) ==
    Response(_get_workflow_state_from_context(ud),
             IF get_user_selections(ud) # EmptyDict
             THEN MSG_SELECTIONS ELSE MSG_NO_SELECTIONS,
             NoMarkup, FALSE, get_user_selections(ud))

--------------------------------------------------------------------------
(* The system: main.py's handlers acting on one user's context *)

\* The tokens a client sends: the three token forms over every declared step
\* key, the option tokens with row and column in 0..IdxBound (beyond the
\* declared options where a step has fewer rows or buttons).
TokenKeys == {_step_keys[i] : i \in 1..Len(_step_keys)}
IndexStrings == {IntStr(i) : i \in 0..IdxBound}
Tokens ==
    {<<p, k>> : p \in {"back", "done"}, k \in TokenKeys}
    \cup {<<k, r, c>> : k \in TokenKeys, r \in IndexStrings, c \in IndexStrings}

\* what the caller holds after the call: the tuple handed back, or the
\* exception that reached it
Returned(r) ==
    IF "raised" \in DOMAIN r
    THEN [raised |-> r.raised]
    ELSE [text |-> r.text, reply_markup |-> r.reply_markup,
          is_final_message |-> r.is_final_message,
          final_selections |-> r.final_selections]

Init ==
    /\ is_initialized \in BOOLEAN
    /\ workflow_steps \in (IF is_initialized THEN Workflows ELSE {<<>>})
    /\ user_data = EmptyDict
    /\ ret = [text |-> None, reply_markup |-> NoMarkup, is_final_message |-> FALSE,
              final_selections |-> EmptyDict]
    /\ last = [op |-> "init", callback_data |-> <<>>, before |-> EmptyDict]
    /\ started = FALSE
    /\ ended = FALSE

\* main.start
Start ==
    \E r \in {start_workflow(user_data)} :
        /\ user_data' = r.ud
        /\ ret' = Returned(r)
        /\ last' = [op |-> "start", callback_data |-> <<>>, before |-> user_data]
        /\ started' = is_initialized
        /\ ended' = FALSE
        /\ UNCHANGED <<is_initialized, workflow_steps>>

\* main.handle_button_click
Activate ==
    \E callback_data \in Tokens :
        \E r \in {process_callback_and_get_response(user_data, callback_data)} :
            /\ user_data' = r.ud
            /\ ret' = Returned(r)
            /\ last' = [op |-> "activate", callback_data |-> callback_data,
                        before |-> user_data]
            /\ started' = (started /\ workflow_name \in DOMAIN r.ud)
            /\ ended' = (ended \/ (started /\ r.is_final_message /\ r.text = MSG_COMPLETED))
            /\ UNCHANGED <<is_initialized, workflow_steps>>

\* main.show_selections
ShowSelections ==
    \E r \in {show_selections(user_data)} :
        /\ user_data' = r.ud
        /\ ret' = Returned(r)
        /\ last' = [op |-> "selections", callback_data |-> <<>>, before |-> user_data]
        /\ UNCHANGED <<is_initialized, workflow_steps, started, ended>>

Next == Start \/ Activate \/ ShowSelections

Spec == Init /\ [][Next]_vars

--------------------------------------------------------------------------
(* _validate_manual_step_completion on its own: the validator applied to   *)
(* every shape of value a step's selections entry can hold                 *)

\* the dicts over some of the keys, each key holding None or a value
PartialDicts(keys) == UNION {[D -> {None, "a"}] : D \in SUBSET keys}

\* the values selections[step_key] can hold: a plain or skip value, a
\* checkbox list, a dict of radio groups and toggle values
StoredValues(step_key) ==
    {Scalar("p"), List(<<>>), List(<<"c">>)}
    \cup {Dict(m) : m \in PartialDicts(_radio_groups_per_step(step_key) \cup {"t"})}

\* the selections with no entry or one entry, for step_key
SelectionsFor(step_key) ==
    {EmptyDict} \cup {Put(EmptyDict, step_key, v) : v \in StoredValues(step_key)}

InitValidate ==
    /\ is_initialized = TRUE
    /\ workflow_steps \in Workflows \ {NoSteps}
    /\ \E step_key \in TokenKeys :
           \E selections \in SelectionsFor(step_key) :
               user_data = Put(EmptyDict, workflow_name,
                               [current_step |-> step_key, selections |-> selections])
    /\ ret = [step_key |-> None, valid |-> FALSE]
    /\ last = [op |-> "init", callback_data |-> <<>>, before |-> EmptyDict]
    /\ started = FALSE
    /\ ended = FALSE

\* self._validate_manual_step_completion(context, step_key)
Validate ==
    \E step_key \in TokenKeys :
        /\ ret' = [step_key |-> step_key,
                   valid |-> _validate_manual_step_completion(user_data, step_key)]
        /\ last' = [op |-> "validate", callback_data |-> <<step_key>>,
                    before |-> user_data]
        /\ UNCHANGED <<is_initialized, workflow_steps, user_data, started, ended>>

NextValidate == Validate

SpecValidate == InitValidate /\ [][NextValidate]_vars

--------------------------------------------------------------------------
(* _generate_keyboard_and_text on its own: the current step rendered again  *)
(* and again on every shape of value its selections entry can hold          *)

\* Renders in a row.
MaxRenders == 2

InitRender ==
    /\ is_initialized = TRUE
    /\ workflow_steps \in Workflows \ {NoSteps}
    /\ \E step_key \in TokenKeys :
           \E selections \in SelectionsFor(step_key) :
               user_data = Put(EmptyDict, workflow_name,
                               [current_step |-> step_key, selections |-> selections])
    /\ ret = [text |-> None, reply_markup |-> NoMarkup, is_final_message |-> FALSE,
              final_selections |-> EmptyDict]
    /\ last = [op |-> "init", callback_data |-> <<>>, before |-> EmptyDict,
               renders |-> 0, origin |-> EmptyDict]
    /\ started = FALSE
    /\ ended = FALSE

\* self._generate_keyboard_and_text(context); last.origin keeps user_data as
\* it was before the first render
Render ==
    /\ last.renders < MaxRenders
    /\ \E ui \in {_generate_keyboard_and_text(user_data)} :
           /\ user_data' = ui.ud
           /\ ret' = [text |-> ui.text, reply_markup |-> ui.reply_markup,
                      is_final_message |-> FALSE, final_selections |-> EmptyDict]
           /\ last' = [op |-> "render", callback_data |-> <<>>, before |-> user_data,
                       renders |-> last.renders + 1,
                       origin |-> IF last.renders = 0 THEN user_data ELSE last.origin]
    /\ UNCHANGED <<is_initialized, workflow_steps, started, ended>>

NextRender == Render

SpecRender == InitRender /\ [][NextRender]_vars

--------------------------------------------------------------------------
(* Any callback string: the handlers under tokens no keyboard of the workflow
   carries *)

\* a step key no workflow declares
UnknownKey == "gone"
AnyKeys == TokenKeys \cup {UnknownKey}

\* what stands in a token's row or column place: an index the keyboards carry,
\* a negative integer, and a string int() rejects
AnyIndexStrings == {IntStr(0), IntStr(-1), "x"}

\* The tokens of the keyboards and, over the declared keys and the unknown one:
\* back and done tokens, three-part tokens over AnyIndexStrings, and tokens of
\* one, two and four parts.
AnyTokens ==
    Tokens
    \cup {<<p, k>> : p \in {"back", "done"}, k \in AnyKeys}
    \cup {<<k, r, c>> : k \in AnyKeys, r \in AnyIndexStrings, c \in AnyIndexStrings}
    \cup {<<k>> : k \in AnyKeys}
    \cup {<<k, IntStr(0)>> : k \in AnyKeys}
    \cup {<<k, IntStr(0), IntStr(0), IntStr(0)>> : k \in AnyKeys}

\* main.handle_button_click with query.data any of these strings
ActivateAny ==
    \E callback_data \in AnyTokens :
        \E r \in {process_callback_and_get_response(user_data, callback_data)} :
            /\ user_data' = r.ud
            /\ ret' = Returned(r)
            /\ last' = [op |-> "activate", callback_data |-> callback_data,
                        before |-> user_data]
            /\ started' = (started /\ workflow_name \in DOMAIN r.ud)
            /\ ended' = (ended \/ (started /\ r.is_final_message /\ r.text = MSG_COMPLETED))
            /\ UNCHANGED <<is_initialized, workflow_steps>>

\* the workflows these tokens are sent to
TokenWorkflows == {ScenarioA, ScenarioD}

InitTokens ==
    /\ is_initialized \in BOOLEAN
    /\ workflow_steps \in (IF is_initialized THEN TokenWorkflows ELSE {<<>>})
    /\ user_data = EmptyDict
    /\ ret = [text |-> None, reply_markup |-> NoMarkup, is_final_message |-> FALSE,
              final_selections |-> EmptyDict]
    /\ last = [op |-> "init", callback_data |-> <<>>, before |-> EmptyDict]
    /\ started = FALSE
    /\ ended = FALSE

NextTokens == Start \/ ActivateAny \/ ShowSelections

SpecTokens == InitTokens /\ [][NextTokens]_vars

--------------------------------------------------------------------------
(* A stored state that no longer fits the definition: the handlers on a state
   record whose current_step is None or names no declared step *)

\* Python's .get('current_step') gives None for a record without the key too
CorruptSteps == {None, UnknownKey}

\* selections such a record may hold: none, one for the unknown key, one for
\* the first declared step
CorruptSelections ==
    {EmptyDict,
     Put(EmptyDict, UnknownKey, Scalar("v")),
     Put(EmptyDict, _get_initial_step_key, Scalar("v"))}

\* whether the record's current_step is missing or unknown to the definition
IsCorrupt(ud) ==
    /\ workflow_name \in DOMAIN ud
    /\ ~HasStepConfig(ud[workflow_name].current_step)

InitCorrupt ==
    /\ is_initialized = TRUE
    /\ workflow_steps \in Workflows \ {NoSteps}
    /\ \E current_step \in CorruptSteps, selections \in CorruptSelections :
           user_data = Put(EmptyDict, workflow_name,
                           [current_step |-> current_step, selections |-> selections])
    /\ ret = [text |-> None, reply_markup |-> NoMarkup, is_final_message |-> FALSE,
              final_selections |-> EmptyDict]
    /\ last = [op |-> "init", callback_data |-> <<>>, before |-> EmptyDict]
    /\ started = FALSE
    /\ ended = FALSE

\* main.handle_button_click while the stored state is such a record
ActivateCorrupt ==
    /\ IsCorrupt(user_data)
    /\ \E callback_data \in AnyTokens :
           \E r \in {process_callback_and_get_response(user_data, callback_data)} :
               /\ user_data' = r.ud
               /\ ret' = Returned(r)
               /\ last' = [op |-> "activate", callback_data |-> callback_data,
                           before |-> user_data]
               /\ UNCHANGED <<is_initialized, workflow_steps, started, ended>>

NextCorrupt == ActivateCorrupt

SpecCorrupt == InitCorrupt /\ [][NextCorrupt]_vars

--------------------------------------------------------------------------
(* Several users on one manager: the library hands each handler the
   context.user_data of the user the update came from; the manager object and
   its definition are shared *)

Users == {"A", "B"}

\* A workflow of two steps with a button of every stateful kind: a manual step
\* with a radio button and a checkbox, an auto step with a toggle and a plain
\* button.
ScenarioU == <<
    Step("u0", "manual", FALSE, << <<Radio("g", "a"), Checkbox("c")>> >>),
    Step("u1", "auto", TRUE, << <<Toggle("t", False), Plain("p")>> >>) >>

\* the workflows the users run
UserWorkflows == {ScenarioA, ScenarioU}

\* The tokens the keyboards of the workflow carry: back and done for every
\* step, and one option token for every declared button.
KeyboardTokens ==
    {<<p, k>> : p \in {"back", "done"}, k \in TokenKeys}
    \cup UNION {UNION {{<<workflow_steps[i].key, IntStr(r - 1), IntStr(c - 1)>> :
                           c \in 1..Len(workflow_steps[i].cfg.options[r])} :
                       r \in 1..Len(workflow_steps[i].cfg.options)} :
                i \in 1..Len(workflow_steps)}

\* context.user_data of the update's user, out of the per-user contexts
ContextUserData(contexts, user) == contexts[user]

\* variant: one context serves every user
StoreUserData_Shared(contexts, user, ud) == [u \in Users |-> ud]

\* the contexts after a handler has left ud in the context of user
StoreUserData(contexts, user, ud) == [contexts EXCEPT ![user] = ud]

InitUsers ==
    /\ is_initialized = TRUE
    /\ workflow_steps \in UserWorkflows
    /\ user_data = [u \in Users |-> EmptyDict]
    /\ ret = [text |-> None, reply_markup |-> NoMarkup, is_final_message |-> FALSE,
              final_selections |-> EmptyDict]
    /\ last = [op |-> "init", callback_data |-> <<>>, before |-> user_data,
               user |-> None]
    /\ started = FALSE
    /\ ended = FALSE

\* main.start for an update of user
StartUser ==
    \E user \in Users :
        \E r \in {start_workflow(ContextUserData(user_data, user))} :
            /\ user_data' = StoreUserData(user_data, user, r.ud)
            /\ ret' = Returned(r)
            /\ last' = [op |-> "start", callback_data |-> <<>>, before |-> user_data,
                        user |-> user]
            /\ UNCHANGED <<is_initialized, workflow_steps, started, ended>>

\* main.handle_button_click for an update of user
ActivateUser ==
    \E user \in Users, callback_data \in KeyboardTokens :
        \E r \in {process_callback_and_get_response(ContextUserData(user_data, user),
                                                    callback_data)} :
            /\ user_data' = StoreUserData(user_data, user, r.ud)
            /\ ret' = Returned(r)
            /\ last' = [op |-> "activate", callback_data |-> callback_data,
                        before |-> user_data, user |-> user]
            /\ UNCHANGED <<is_initialized, workflow_steps, started, ended>>

\* main.show_selections for an update of user
ShowSelectionsUser ==
    \E user \in Users :
        \E r \in {show_selections(ContextUserData(user_data, user))} :
            /\ user_data' = StoreUserData(user_data, user, r.ud)
            /\ ret' = Returned(r)
            /\ last' = [op |-> "selections", callback_data |-> <<>>,
                        before |-> user_data, user |-> user]
            /\ UNCHANGED <<is_initialized, workflow_steps, started, ended>>

NextUsers == StartUser \/ ActivateUser \/ ShowSelectionsUser

SpecUsers == InitUsers /\ [][NextUsers]_vars

--------------------------------------------------------------------------
(* Construction: InlineWorkflowManager(workflow_filepath) on what
   _load_workflow_data returns, main's start-up test, and the handlers on the
   manager so built *)

\* What _load_workflow_data returns: None (loaded FALSE) for a file that is
\* missing or is not JSON, else the top-level mapping, here the sequence of its
\* (name, steps) entries.
Unloadable == [loaded |-> FALSE, entries |-> <<>>]
EmptyMapping == [loaded |-> TRUE, entries |-> <<>>]
Mapping(steps) == [loaded |-> TRUE, entries |-> <<[name |-> workflow_name, steps |-> steps]>>]

\* "if not workflow_data": None and the empty mapping are falsy
Unusable(workflow_data) == ~workflow_data.loaded \/ Len(workflow_data.entries) = 0

\* variant: only a file that cannot be loaded is rejected
InlineWorkflowManager_AcceptsEmpty(workflow_data) ==
    IF workflow_data = Unloadable
    THEN [is_initialized |-> FALSE, workflow_steps |-> <<>>]
    ELSE IF workflow_data = EmptyMapping
    THEN [is_initialized |-> TRUE, workflow_steps |-> <<>>]
    ELSE [is_initialized |-> TRUE, workflow_steps |-> workflow_data.entries[1].steps]

\* __init__: the fields of the manager after construction
InlineWorkflowManager(workflow_data) ==
    IF Unusable(workflow_data)
    THEN [is_initialized |-> FALSE, workflow_steps |-> <<>>]
    ELSE [is_initialized |-> TRUE, workflow_steps |-> workflow_data.entries[1].steps]

\* main: whether the application is built and polling starts
main(manager) == manager.is_initialized

\* the files the manager is built from
WorkflowFiles == {Unloadable, EmptyMapping, Mapping(ScenarioA), Mapping(NoSteps)}

\* what a user's context holds when the first update arrives: nothing, or a
\* record under the workflow's name
StoredContexts ==
    {EmptyDict,
     Put(EmptyDict, workflow_name, [current_step |-> "intro", selections |-> EmptyDict]),
     Put(EmptyDict, workflow_name,
         [current_step |-> "color",
          selections |-> Put(EmptyDict, "intro", Scalar("value0"))])}

InitBuilt ==
    \E workflow_data \in WorkflowFiles :
        \E manager \in {InlineWorkflowManager(workflow_data)} :
            /\ is_initialized = manager.is_initialized
            /\ workflow_steps = manager.workflow_steps
            /\ user_data \in StoredContexts
            /\ ret = [text |-> None, reply_markup |-> NoMarkup,
                      is_final_message |-> FALSE, final_selections |-> EmptyDict]
            /\ last = [op |-> "init", callback_data |-> <<>>, before |-> user_data,
                       workflow_data |-> workflow_data, polling |-> main(manager)]
            /\ started = FALSE
            /\ ended = FALSE

\* start_workflow called on the manager
StartBuilt ==
    \E r \in {start_workflow(user_data)} :
        /\ user_data' = r.ud
        /\ ret' = Returned(r)
        /\ last' = [last EXCEPT !.op = "start", !.callback_data = <<>>,
                                !.before = user_data]
        /\ UNCHANGED <<is_initialized, workflow_steps, started, ended>>

\* process_callback_and_get_response called on the manager
ActivateBuilt ==
    \E callback_data \in AnyTokens :
        \E r \in {process_callback_and_get_response(user_data, callback_data)} :
            /\ user_data' = r.ud
            /\ ret' = Returned(r)
            /\ last' = [last EXCEPT !.op = "activate", !.callback_data = callback_data,
                                    !.before = user_data]
            /\ UNCHANGED <<is_initialized, workflow_steps, started, ended>>

\* get_user_selections called on the manager, as main.show_selections does
ShowSelectionsBuilt ==
    \E r \in {show_selections(user_data)} :
        /\ user_data' = r.ud
        /\ ret' = Returned(r)
        /\ last' = [last EXCEPT !.op = "selections", !.callback_data = <<>>,
                                !.before = user_data]
        /\ UNCHANGED <<is_initialized, workflow_steps, started, ended>>

NextBuilt == StartBuilt \/ ActivateBuilt \/ ShowSelectionsBuilt

SpecBuilt == InitBuilt /\ [][NextBuilt]_vars

--------------------------------------------------------------------------
(* The step order: _get_next_step_key and _get_previous_step_key on the key
   lists of the workflows and of chains of plain steps *)

MaxChain == 6

ChainKeys == <<"k1", "k2", "k3", "k4", "k5", "k6", "k7", "k8">>

\* a workflow of n steps with one plain button each
Chain(n) == [i \in 1..n |-> Step(ChainKeys[i], "auto", TRUE, << <<Plain("v")>> >>)]

OrderWorkflows == (Workflows \ {NoSteps}) \cup {Chain(n) : n \in 1..MaxChain}

InitOrder ==
    /\ is_initialized = TRUE
    /\ workflow_steps \in OrderWorkflows
    /\ user_data = EmptyDict
    /\ ret = [a |-> None, b |-> None, next |-> None, previous |-> None]
    /\ last = [op |-> "init", callback_data |-> <<>>, before |-> EmptyDict]
    /\ started = FALSE
    /\ ended = FALSE

\* the two lookups on a pair of declared keys
Lookup ==
    \E a \in TokenKeys, b \in TokenKeys :
        /\ ret' = [a |-> a, b |-> b,
                   next |-> _get_next_step_key(a, 0),
                   previous |-> _get_previous_step_key(b)]
        /\ last' = [op |-> "lookup", callback_data |-> <<>>, before |-> EmptyDict]
        /\ UNCHANGED <<is_initialized, workflow_steps, user_data, started, ended>>

NextOrder == Lookup

SpecOrder == InitOrder /\ [][NextOrder]_vars

--------------------------------------------------------------------------
(* Object identity: the dicts and lists stored as per-step values are Python
   objects; get_user_selections copies the outer mapping only, so the caller's
   snapshot and the stored selections refer to the same inner objects.
   Here user_data is [current_step, selections, heap]: selections maps a step
   key to a bare value or to a reference, heap gives each object's content. *)

MaxCalls == 4

Ref(id) == [tag |-> "ref", id |-> id]

\* a mapping of step keys with every reference replaced by the object's content
Resolve(heap, mapping) ==
    [k \in DOMAIN mapping |->
        IF mapping[k].tag = "ref" THEN heap[mapping[k].id] ELSE mapping[k]]

\* context.user_data as the handlers of the manager read it
ValueState(h) ==
    Put(EmptyDict, workflow_name,
        [current_step |-> h.current_step,
         selections |-> Resolve(h.heap, h.selections)])

\* workflow_state['selections'][step_key] = <a new object holding value>
Allocate(h, step_key, value) ==
    [h EXCEPT !.heap = Append(@, value),
              !.selections = Put(@, step_key, Ref(Len(h.heap) + 1))]

\* whether the step's entry is an object of the type the branch works on
\* ("isinstance(current_selection_state, dict)" / "list")
HoldsObject(h, step_key, tag) ==
    /\ step_key \in DOMAIN h.selections
    /\ h.selections[step_key].tag = "ref"
    /\ h.heap[h.selections[step_key].id].tag = tag

\* _update_selection on objects: the plain and skip branches store the bare
\* value; the radio, checkbox and toggle branches change the stored object in
\* place when it has the branch's type and store a new object otherwise
UpdateOnHeap(h, step_key, button_config) ==
    LET after == _update_selection(ValueState(h), step_key, button_config)
        value == _get_selection_value(after, step_key)
    IN  IF after = ValueState(h) THEN h
        ELSE IF value.tag = "scalar"
        THEN [h EXCEPT !.selections = Put(@, step_key, value)]
        ELSE IF HoldsObject(h, step_key, value.tag)
        THEN [h EXCEPT !.heap[h.selections[step_key].id] = value]
        ELSE Allocate(h, step_key, value)

\* the pre-selection block of _generate_keyboard_and_text on objects: a fresh
\* {} when the entry is no dict, and the updated copy when a default was set
RenderOnHeap(h, step_key) ==
    IF ~(/\ CompletionType(_get_step_config(step_key)) = "manual"
         /\ _radio_groups_per_step(step_key) # {})
    THEN h
    ELSE LET ensured == IF HoldsObject(h, step_key, "dict") THEN h
                        ELSE Allocate(h, step_key, Dict(EmptyDict))
             acc == PreSelect(Flatten(_get_step_config(step_key).options),
                              [temp |-> _get_selection_value(ValueState(ensured),
                                                             step_key).map,
                               made |-> FALSE])
         IN  IF acc.made THEN Allocate(ensured, step_key, Dict(acc.temp)) ELSE ensured

\* workflow_state['selections'].copy(): a new outer mapping over the same
\* inner objects
ShallowCopy(h) == h.selections

\* variant: the copy takes new objects for the inner values too; the new
\* objects are numbered after the stored ones
DeepCopy(h) == Resolve(h.heap, h.selections)

\* what get_user_selections hands to the caller
SnapshotOf(h) == ShallowCopy(h)

\* content of the snapshot the caller holds
SnapshotContent(h, snapshot) ==
    [k \in DOMAIN snapshot |->
        IF snapshot[k].tag = "ref" THEN h.heap[snapshot[k].id] ELSE snapshot[k]]

\* the buttons of the step the user is on
ButtonsOfStep == Flatten(_get_step_config(user_data.current_step).options)

SnapshotWorkflows == {ScenarioC, ScenarioD}

InitSnapshot ==
    /\ is_initialized = TRUE
    /\ workflow_steps \in SnapshotWorkflows
    /\ user_data = RenderOnHeap([current_step |-> _get_initial_step_key,
                                 selections |-> EmptyDict, heap |-> <<>>],
                                _get_initial_step_key)
    /\ ret = [taken |-> FALSE, snapshot |-> EmptyDict]
    /\ last = [op |-> "init", calls |-> 0, stored |-> EmptyDict, snapshot |-> EmptyDict]
    /\ started = TRUE
    /\ ended = FALSE

\* what the next operation finds: the content of the store and of the snapshot
Found(op) ==
    [op |-> op, calls |-> last.calls + 1,
     stored |-> Resolve(user_data.heap, user_data.selections),
     snapshot |-> SnapshotContent(user_data, ret.snapshot)]

\* an activation of a radio, checkbox or toggle button of the current step:
\* _update_selection, then the render of the same step
ClickStateful ==
    /\ last.calls < MaxCalls
    /\ \E button_config \in {b \in {ButtonsOfStep[i] : i \in 1..Len(ButtonsOfStep)} :
                                b.type \in {"radio", "checkbox", "toggle"}} :
           user_data' = RenderOnHeap(UpdateOnHeap(user_data, user_data.current_step,
                                                  button_config),
                                     user_data.current_step)
    /\ last' = Found("click")
    /\ UNCHANGED <<is_initialized, workflow_steps, ret, started, ended>>

\* get_user_selections(context)
GetSelections ==
    /\ last.calls < MaxCalls
    /\ ret' = [taken |-> TRUE, snapshot |-> SnapshotOf(user_data)]
    /\ last' = Found("get")
    /\ UNCHANGED <<is_initialized, workflow_steps, user_data, started, ended>>

\* the caller changes a per-step value inside the snapshot it was given:
\* appends to a list, sets a key of a dict
CallerChangesValue ==
    /\ last.calls < MaxCalls
    /\ ret.taken
    /\ \E k \in DOMAIN ret.snapshot :
           /\ ret.snapshot[k].tag = "ref"
           /\ LET id == ret.snapshot[k].id
                  object == user_data.heap[id]
              IN  user_data' = [user_data EXCEPT !.heap[id] =
                      IF object.tag = "list"
                      THEN List(Append(object.items, "added"))
                      ELSE Dict(Put(object.map, "added", "added"))]
    /\ last' = Found("caller_value")
    /\ UNCHANGED <<is_initialized, workflow_steps, ret, started, ended>>

\* the caller changes the mapping it was given: sets an entry
CallerChangesMapping ==
    /\ last.calls < MaxCalls
    /\ ret.taken
    /\ ret' = [ret EXCEPT !.snapshot = Put(@, "added", Scalar("added"))]
    /\ last' = Found("caller_mapping")
    /\ UNCHANGED <<is_initialized, workflow_steps, user_data, started, ended>>

NextSnapshot == ClickStateful \/ GetSelections \/ CallerChangesValue \/ CallerChangesMapping

SpecSnapshot == InitSnapshot /\ [][NextSnapshot]_vars

--------------------------------------------------------------------------
(* The controls of a rendered step: _generate_keyboard_and_text on steps of
   every completionType and backButton setting, in first and later position *)

\* A workflow whose steps declare backButton and completionType in every
\* combination; the first step declares backButton.
ScenarioE == <<
    Step("e0", "manual", TRUE, << <<Radio("g", "a"), Plain("p")>> >>),
    Step("e1", "auto", FALSE, << <<Plain("p")>> >>),
    Step("e2", "manual", FALSE, << <<Checkbox("c")>> >>),
    Step("e3", None, TRUE, << <<Toggle("t", False)>> >>),
    Step("e4", "manual", TRUE, << <<Radio("g", "a")>> >>) >>

ControlWorkflows == (Workflows \ {NoSteps}) \cup {ScenarioE}

InitControls ==
    /\ is_initialized = TRUE
    /\ workflow_steps \in ControlWorkflows
    /\ \E step_key \in TokenKeys :
           \E selections \in SelectionsFor(step_key) :
               user_data = Put(EmptyDict, workflow_name,
                               [current_step |-> step_key, selections |-> selections])
    /\ ret = [text |-> None, reply_markup |-> NoMarkup, is_final_message |-> FALSE,
              final_selections |-> EmptyDict]
    /\ last = [op |-> "init", callback_data |-> <<>>, before |-> EmptyDict,
               renders |-> 0, origin |-> EmptyDict]
    /\ started = FALSE
    /\ ended = FALSE

NextControls == Render

SpecControls == InitControls /\ [][NextControls]_vars

--------------------------------------------------------------------------
(* The handlers on workflows whose steps hold radio buttons outside manual
   steps and radio buttons without a value next to other stateful buttons *)

\* An auto step with radio buttons of two groups, one of them without a value,
\* and a toggle; then a manual step with a two-valued group, a checkbox and a
\* toggle that starts on.
ScenarioV == <<
    Step("v0", None, FALSE,
         << <<Radio("g", None), Radio("g", "a")>>, <<Radio("h", "b"), Toggle("t", False)>> >>),
    Step("v1", "manual", TRUE,
         << <<Radio("g", "a"), Radio("g", "b")>>, <<Checkbox("c"), Toggle("t", True)>> >>) >>

\* Radio buttons that declare no radioGroup: in an auto step next to a plain
\* button, a checkbox and a toggle; in a manual step without radio groups.
ScenarioW == <<
    Step("w0", "auto", FALSE,
         << <<Radio(None, "x"), Plain("p")>>, <<Checkbox("c"), Toggle("t", False)>> >>),
    Step("w1", "manual", TRUE, << <<Radio(None, "y"), Checkbox("c")>> >>) >>

ViewWorkflows == {ScenarioC, ScenarioD, ScenarioV, ScenarioW}

InitView ==
    /\ is_initialized = TRUE
    /\ workflow_steps \in ViewWorkflows
    /\ user_data = EmptyDict
    /\ ret = [text |-> None, reply_markup |-> NoMarkup, is_final_message |-> FALSE,
              final_selections |-> EmptyDict]
    /\ last = [op |-> "init", callback_data |-> <<>>, before |-> EmptyDict]
    /\ started = FALSE
    /\ ended = FALSE

NextView == Start \/ Activate \/ ShowSelections

SpecView == InitView /\ [][NextView]_vars

--------------------------------------------------------------------------
(* Runs with a count of the pointer moves: main.start followed by
   main.handle_button_click calls, the history recording how many activations
   other than back changed current_step since start() and whether a back
   token was among the activations. The count stops at the end of the
   workflow. *)

MaxMoves == 6

ProgressWorkflows == {ScenarioA, ScenarioB, ScenarioC, ScenarioD}

InitProgress ==
    /\ is_initialized = TRUE
    /\ workflow_steps \in ProgressWorkflows
    /\ user_data = EmptyDict
    /\ ret = [text |-> None, reply_markup |-> NoMarkup, is_final_message |-> FALSE,
              final_selections |-> EmptyDict]
    /\ last = [op |-> "init", callback_data |-> <<>>, before |-> EmptyDict,
               moves |-> 0, backs |-> FALSE]
    /\ started = FALSE
    /\ ended = FALSE

\* main.start
StartProgress ==
    \E r \in {start_workflow(user_data)} :
        /\ user_data' = r.ud
        /\ ret' = Returned(r)
        /\ last' = [op |-> "start", callback_data |-> <<>>, before |-> user_data,
                    moves |-> 0, backs |-> FALSE]
        /\ started' = TRUE
        /\ ended' = FALSE
        /\ UNCHANGED <<is_initialized, workflow_steps>>

\* main.handle_button_click
ActivateProgress ==
    \E callback_data \in KeyboardTokens :
        \E r \in {process_callback_and_get_response(user_data, callback_data)} :
            LET is_back == StartsWith(callback_data, "back")
                moved == _get_user_current_step_key(r.ud)
                             # _get_user_current_step_key(user_data)
                counted == started /\ ~ended /\ ~is_back /\ moved
            IN  /\ user_data' = r.ud
                /\ ret' = Returned(r)
                /\ last' = [op |-> "activate", callback_data |-> callback_data,
                            before |-> user_data,
                            moves |-> IF counted /\ last.moves < MaxMoves
                                      THEN last.moves + 1 ELSE last.moves,
                            backs |-> last.backs \/ (started /\ ~ended /\ is_back)]
                /\ started' = (started /\ workflow_name \in DOMAIN r.ud)
                /\ ended' = (ended \/ (started /\ r.is_final_message))
                /\ UNCHANGED <<is_initialized, workflow_steps>>

NextProgress == StartProgress \/ ActivateProgress

SpecProgress == InitProgress /\ [][NextProgress]_vars

--------------------------------------------------------------------------
(* Runs made of main.start and main.handle_button_click calls only, over the
   workflows of SpecView: every user state was left by start() or by an
   activation. *)

NextRun == Start \/ Activate

SpecRun == InitView /\ [][NextRun]_vars

--------------------------------------------------------------------------
(* WorkflowManager of module.py: the engine variant that keeps the user     *)
(* states in self._user_states, keyed by chat id. Its step lookups          *)
(* (_get_next_step_key, _get_previous_step_key, get_initial_step_key) are   *)
(* the same code as the InlineWorkflowManager's. Each operator takes        *)
(* _user_states as the code finds it (us) and yields it as the code leaves  *)
(* it.                                                                      *)

ChatId == "chat"

\* WorkflowManager._get_user_state: the record is created on first use
WorkflowManager_get_user_state(us, chat_id) ==
    IF chat_id \notin DOMAIN us
    THEN Put(us, chat_id, [current_step |-> _get_initial_step_key, selections |-> EmptyDict])
    ELSE us

WorkflowManager_set_user_step(us, chat_id, step_key) ==
    [WorkflowManager_get_user_state(us, chat_id) EXCEPT ![chat_id].current_step = step_key]

WorkflowManager_reset_user_state(us, chat_id) ==
    [c \in (DOMAIN us) \ {chat_id} |-> us[c]]

\* WorkflowManager._update_selection: plain, radio and skip buttons store the
\* bare value for the step
WorkflowManager_update_selection(us, chat_id, step_key, button_config) ==
    LET selection_value == button_config.value
        button_type == button_config.type
        state == WorkflowManager_get_user_state(us, chat_id)
        current_selection == Get(state[chat_id].selections, step_key, Scalar(None))
        as_list == IF current_selection.tag = "list" THEN current_selection.items ELSE <<>>
        as_dict == IF current_selection.tag = "dict" THEN current_selection.map
                   ELSE EmptyDict
        Store(value) == [state EXCEPT ![chat_id].selections = Put(@, step_key, value)]
    IN  IF button_type \in {None, "radio", "skip"}
        THEN Store(Scalar(selection_value))
        ELSE IF button_type = "checkbox"
        THEN Store(List(IF ListHas(as_list, selection_value)
                        THEN ListRemove(as_list, selection_value)
                        ELSE Append(as_list, selection_value)))
        ELSE IF button_type = "toggle"
        THEN Store(Dict(Put(as_dict, selection_value,
                            PyNot(Get(as_dict, selection_value, button_config.initialState)))))
        ELSE us

\* the tuple handle_callback_query returns, with _user_states as it leaves it
QueryResult(us, next_step_key_to_render, current_step_key, processed_value, is_workflow_end) ==
    [us |-> us, next_step_key_to_render |-> next_step_key_to_render,
     current_step_key_before_change |-> current_step_key,
     processed_value |-> processed_value, is_workflow_end |-> is_workflow_end]

\* "return current_step_key, current_step_key, None, False"
StayPut(us, current_step_key) ==
    QueryResult(us, current_step_key, current_step_key, None, FALSE)

\* the branches of handle_callback_query for the button found at the indices
WorkflowManager_click(us, chat_id, current_step_key, step_config, button_config) ==
    LET button_type == button_config.type
        processed_value == button_config.value
        recorded == WorkflowManager_update_selection(us, chat_id, current_step_key,
                                                     button_config)
        skipped == _get_next_step_key(current_step_key, button_config.skipSteps)
        following == _get_next_step_key(current_step_key, 0)
    IN  IF button_type = "finish"
        THEN QueryResult(recorded, None, current_step_key, processed_value, TRUE)
        ELSE IF button_type = "skip"
        THEN QueryResult(WorkflowManager_set_user_step(recorded, chat_id, skipped),
                         skipped, current_step_key, processed_value, skipped = None)
        ELSE IF button_type \in {"radio", "checkbox", "toggle"}
        THEN QueryResult(recorded, current_step_key, current_step_key, processed_value,
                         FALSE)
        ELSE IF CompletionType(step_config) = "auto"
        THEN QueryResult(WorkflowManager_set_user_step(recorded, chat_id, following),
                         following, current_step_key, processed_value, following = None)
        ELSE QueryResult(recorded, current_step_key, current_step_key, processed_value,
                         FALSE)

\* WorkflowManager.handle_callback_query
handle_callback_query(us0, chat_id, callback_data) ==
    LET us == WorkflowManager_get_user_state(us0, chat_id)
        current_step_key == us[chat_id].current_step
        parts == callback_data
    IN  IF StartsWith(callback_data, "back")
        THEN IF callback_data[2] # current_step_key THEN StayPut(us, current_step_key)
             ELSE IF Truthy(_get_previous_step_key(current_step_key))
             THEN QueryResult(WorkflowManager_set_user_step(
                                  us, chat_id, _get_previous_step_key(current_step_key)),
                              _get_previous_step_key(current_step_key),
                              current_step_key, None, FALSE)
             ELSE StayPut(us, current_step_key)
        ELSE IF StartsWith(callback_data, "done")
        THEN IF callback_data[2] # current_step_key THEN StayPut(us, current_step_key)
             ELSE QueryResult(WorkflowManager_set_user_step(
                                  us, chat_id, _get_next_step_key(current_step_key, 0)),
                              _get_next_step_key(current_step_key, 0), current_step_key,
                              None, _get_next_step_key(current_step_key, 0) = None)
        ELSE IF Len(parts) # 3 THEN StayPut(us, current_step_key)
        ELSE IF ~IsIntStr(parts[2]) \/ ~IsIntStr(parts[3])
        THEN StayPut(us, current_step_key)                            \* ValueError
        ELSE IF parts[1] # current_step_key THEN StayPut(us, current_step_key)
        ELSE IF ~HasStepConfig(current_step_key)
        THEN QueryResult(us, None, current_step_key, None, TRUE)
        ELSE LET step_config == _get_step_config(current_step_key)
                 row_index == ParseInt(parts[2])
                 button_index == ParseInt(parts[3])
             IN  IF ~InRange(step_config.options, row_index)
                 THEN StayPut(us, current_step_key)                   \* IndexError
                 ELSE IF ~InRange(PyIndex(step_config.options, row_index), button_index)
                 THEN StayPut(us, current_step_key)
                 ELSE WorkflowManager_click(
                          us, chat_id, current_step_key, step_config,
                          PyIndex(PyIndex(step_config.options, row_index), button_index))

--------------------------------------------------------------------------
(* The two engines side by side on one definition: user_data holds the
   context's user_data of the InlineWorkflowManager (inline) and the
   _user_states of the WorkflowManager (module); every start and every
   activation is given to both. ended records that one of them has reported
   the end of the workflow; a run is a fresh start followed by activations
   up to that report. *)

TwinWorkflows == {ScenarioA, ScenarioB, ScenarioC, ScenarioD}

InitTwin ==
    /\ is_initialized = TRUE
    /\ workflow_steps \in TwinWorkflows
    /\ user_data = [inline |-> EmptyDict, module |-> EmptyDict]
    /\ ret = [inline |-> [text |-> None, reply_markup |-> NoMarkup,
                          is_final_message |-> FALSE, final_selections |-> EmptyDict],
              is_workflow_end |-> FALSE]
    /\ last = [op |-> "init", callback_data |-> <<>>]
    /\ started = FALSE
    /\ ended = FALSE

\* a fresh start of both: start_workflow on the context; the chat's record is
\* dropped and created again at the first step
StartTwin ==
    \E r \in {start_workflow(user_data.inline)} :
        /\ user_data' = [inline |-> r.ud,
                         module |-> WorkflowManager_get_user_state(
                                        WorkflowManager_reset_user_state(user_data.module,
                                                                         ChatId),
                                        ChatId)]
        /\ ret' = [inline |-> Returned(r), is_workflow_end |-> FALSE]
        /\ last' = [op |-> "start", callback_data |-> <<>>]
        /\ started' = TRUE
        /\ ended' = FALSE
        /\ UNCHANGED <<is_initialized, workflow_steps>>

\* the same activation handed to both engines, while the run that began with
\* the fresh start has not ended
ActivateTwin ==
    /\ started
    /\ ~ended
    /\ \E callback_data \in KeyboardTokens :
        \E r \in {process_callback_and_get_response(user_data.inline, callback_data)} :
            \E q \in {handle_callback_query(user_data.module, ChatId, callback_data)} :
                /\ user_data' = [inline |-> r.ud, module |-> q.us]
                /\ ret' = [inline |-> Returned(r), is_workflow_end |-> q.is_workflow_end]
                /\ last' = [op |-> "activate", callback_data |-> callback_data]
                /\ started' = started
                /\ ended' = (r.is_final_message \/ q.is_workflow_end)
                /\ UNCHANGED <<is_initialized, workflow_steps>>

NextTwin == StartTwin \/ ActivateTwin

SpecTwin == InitTwin /\ [][NextTwin]_vars

--------------------------------------------------------------------------
(* Vocabulary of the properties *)

\* the user has a state record (start() or any handler has created one)
HasState(ud) == workflow_name \in DOMAIN ud

\* currentStep of the specification: a step key, or None when absent
CurrentStep(ud) == IF HasState(ud) THEN ud[workflow_name].current_step ELSE None

\* the selections mapping (empty when there is no state record)
Selections(ud) == IF HasState(ud) THEN ud[workflow_name].selections ELSE EmptyDict

\* the step the handler of the last operation found the user on
StepBefore == CurrentStep(last.before)
SelectionsBefore == Selections(last.before)

NumSteps == Len(workflow_steps)
StepAt(index) == workflow_steps[index + 1].key
ConfigOf(step_key) == workflow_steps[KeyIndex(step_key) + 1].cfg
IsManual(step_key) == ConfigOf(step_key).completionType = "manual"
ButtonsOf(step_key) == Flatten(ConfigOf(step_key).options)

\* the radio groups a step declares
DeclaredGroups(step_key) ==
    {b.radioGroup : b \in {x \in {ButtonsOf(step_key)[i] : i \in 1..Len(ButtonsOf(step_key))} :
                              x.type = "radio"}} \ {None}

\* the last operation was an activation of the option button at (row, col) of
\* the step the user was on, by the token rendered for that button
ClickedOn(step_key, row, col) ==
    /\ last.op = "activate"
    /\ HasState(last.before)
    /\ StepBefore = step_key
    /\ step_key # None
    /\ last.callback_data = <<step_key, IntStr(row), IntStr(col)>>
    /\ row < Len(ConfigOf(step_key).options)
    /\ col < Len(ConfigOf(step_key).options[row + 1])

\* the same, in a run that went through /start
StartedClickOn(step_key, row, col) ==
    ClickedOn(step_key, row, col) /\ started

ButtonAt(step_key, row, col) == ConfigOf(step_key).options[row + 1][col + 1]

Positions == (0..IdxBound) \X (0..IdxBound)

\* the descriptor handed back shows the keyboard of this step
ShowsStep(step_key) ==
    /\ ret.reply_markup.kind = "InlineKeyboardMarkup"
    /\ ~ret.is_final_message
    /\ \A r \in 1..Len(ConfigOf(step_key).options) :
           \A c \in 1..Len(ConfigOf(step_key).options[r]) :
               ret.reply_markup.inline_keyboard[r][c].callback_data
                   = <<step_key, IntStr(r - 1), IntStr(c - 1)>>

\* the descriptor handed back is the terminal one
IsTerminal == ret.is_final_message /\ ret.reply_markup = NoMarkup

--------------------------------------------------------------------------
(* Properties *)

\* C1: after start() on a workflow with at least one step, from any earlier
\* state, currentStep is the first declared step, the selections hold nothing
\* but the radio defaults of that first step, and the descriptor returned is
\* the first step's.
C1_StartResets ==
    (last.op = "start" /\ is_initialized /\ NumSteps >= 1) =>
        /\ HasState(user_data)
        /\ CurrentStep(user_data) = StepAt(0)
        /\ DOMAIN Selections(user_data) \subseteq {StepAt(0)}
        /\ StepAt(0) \in DOMAIN Selections(user_data) =>
               /\ IsManual(StepAt(0))
               /\ Selections(user_data)[StepAt(0)].tag = "dict"
               /\ DOMAIN Selections(user_data)[StepAt(0)].map = DeclaredGroups(StepAt(0))
        /\ ShowsStep(StepAt(0))
        /\ ret.text = ConfigOf(StepAt(0)).description

\* start() called on an ended workflow that had recorded selections
C1_Witness ==
    /\ last.op = "start"
    /\ HasState(last.before)
    /\ StepBefore = None
    /\ SelectionsBefore # EmptyDict
    /\ CurrentStep(user_data) = StepAt(0)

\* C2: activating a plain button of the current step leaves its value recorded
\* for that step; in an auto step the pointer moves to the next step or the
\* workflow ends after the last step, in a manual step the pointer stays.
C2_PlainButton ==
    \A pos \in Positions :
        \A k \in {StepBefore} :
            (/\ StartedClickOn(k, pos[1], pos[2])
             /\ ButtonAt(k, pos[1], pos[2]).type = None) =>
                /\ k \in DOMAIN Selections(user_data)
                /\ Selections(user_data)[k] = Scalar(ButtonAt(k, pos[1], pos[2]).value)
                /\ IF IsManual(k)
                   THEN CurrentStep(user_data) = k
                   ELSE IF KeyIndex(k) + 1 < NumSteps
                        THEN CurrentStep(user_data) = StepAt(KeyIndex(k) + 1)
                        ELSE CurrentStep(user_data) = None /\ IsTerminal

\* C3: activating a skip button with skipSteps n on the current step at index
\* i records its value for that step and moves the pointer to index i+1+n, or
\* ends the workflow when there is no such step; the entries of the bypassed
\* steps i+1..i+n are as they were.
C3_SkipButton ==
    \A pos \in Positions :
        \A k \in {StepBefore} :
            (ClickedOn(k, pos[1], pos[2]) /\ ButtonAt(k, pos[1], pos[2]).type = "skip") =>
                LET target == KeyIndex(k) + 1 + ButtonAt(k, pos[1], pos[2]).skipSteps
                IN  /\ k \in DOMAIN Selections(user_data)
                    /\ Selections(user_data)[k] = Scalar(ButtonAt(k, pos[1], pos[2]).value)
                    /\ IF target < NumSteps
                       THEN CurrentStep(user_data) = StepAt(target) /\ ShowsStep(StepAt(target))
                       ELSE CurrentStep(user_data) = None /\ IsTerminal
                    /\ \A j \in (KeyIndex(k) + 1)..(target - 1) :
                           j < NumSteps =>
                               /\ StepAt(j) \in DOMAIN Selections(user_data)
                                      <=> StepAt(j) \in DOMAIN SelectionsBefore
                               /\ StepAt(j) \in DOMAIN SelectionsBefore =>
                                      Selections(user_data)[StepAt(j)]
                                          = SelectionsBefore[StepAt(j)]

\* Scenario B: the skip button of the first of four steps moved the user to the
\* third, and the second step has no entry
C3_Witness ==
    /\ ClickedOn("s0", 0, 0)
    /\ NumSteps = 4
    /\ CurrentStep(user_data) = "s2"
    /\ "s1" \notin DOMAIN Selections(user_data)
    /\ Selections(user_data)["s0"] = Scalar("any")

\* C4: activating a finish button of the current step ends the workflow: the
\* descriptor is terminal and currentStep is absent afterwards.
C4_FinishEnds ==
    \A pos \in Positions :
        \A k \in {StepBefore} :
            (/\ StartedClickOn(k, pos[1], pos[2])
             /\ ButtonAt(k, pos[1], pos[2]).type = "finish") =>
                IsTerminal /\ CurrentStep(user_data) = None

\* C5: activating a finish button that carries a value records the value as
\* the selection of the current step, and the terminal snapshot holds it.
C5_FinishRecords ==
    \A pos \in Positions :
        \A k \in {StepBefore} :
            (/\ StartedClickOn(k, pos[1], pos[2])
             /\ ButtonAt(k, pos[1], pos[2]).type = "finish"
             /\ ButtonAt(k, pos[1], pos[2]).value # None) =>
                /\ k \in DOMAIN Selections(user_data)
                /\ Selections(user_data)[k] = Scalar(ButtonAt(k, pos[1], pos[2]).value)
                /\ k \in DOMAIN ret.final_selections
                /\ ret.final_selections[k] = Scalar(ButtonAt(k, pos[1], pos[2]).value)

\* C6: once a started run has ended, an activation changes neither currentStep
\* nor any selections entry and hands back no step keyboard, until /start is
\* called again; the final selections stay in place for that whole time.
C6_EndedIsInert ==
    [][(ended /\ last'.op = "activate") =>
           /\ CurrentStep(user_data') = CurrentStep(user_data)
           /\ Selections(user_data') = Selections(user_data)
           /\ ret'.reply_markup = NoMarkup]_vars

\* the last operation was the activation of the token done:<step_key> while
\* the user was on step_key
DoneOn(step_key) ==
    /\ last.op = "activate"
    /\ HasState(last.before)
    /\ StepBefore = step_key
    /\ step_key # None
    /\ last.callback_data = <<"done", step_key>>

\* the completion validator's verdict on the state the activation found
AcceptedBefore(step_key) == _validate_manual_step_completion(last.before, step_key)

\* C7: for the token done:<k> with k the current step: when the validator
\* accepts, the pointer moves to the step at index+1 or the workflow ends after
\* the last step; when it rejects, the pointer stays and the descriptor of the
\* same step carries the warning text.
C7_DoneValidates ==
    \A k \in {StepBefore} :
        DoneOn(k) =>
            IF AcceptedBefore(k)
            THEN IF KeyIndex(k) + 1 < NumSteps
                 THEN /\ CurrentStep(user_data) = StepAt(KeyIndex(k) + 1)
                      /\ ShowsStep(StepAt(KeyIndex(k) + 1))
                      /\ ret.text # MSG_REQUIRED
                 ELSE CurrentStep(user_data) = None /\ IsTerminal
            ELSE /\ CurrentStep(user_data) = k
                 /\ ShowsStep(k)
                 /\ ret.text = MSG_REQUIRED

\* a started run in which done was rejected: step m1 of Scenario C, whose group
\* n has no button with a value
C7_Witness ==
    /\ started
    /\ DoneOn("m1")
    /\ ~AcceptedBefore("m1")
    /\ ret.text = MSG_REQUIRED
    /\ CurrentStep(user_data) = "m1"

\* C8: a done activation on a manual step with a required radio group that has
\* no recorded value leaves the whole user state as it was.
C8_RejectedDoneKeepsState ==
    \A k \in {StepBefore} :
        (DoneOn(k) /\ IsManual(k) /\ ~AcceptedBefore(k)) => user_data = last.before

\* canComplete as the specification words it
CanComplete(ud, step_key) ==
    \/ ~IsManual(step_key)
    \/ DeclaredGroups(step_key) = {}
    \/ /\ step_key \in DOMAIN Selections(ud)
       /\ Selections(ud)[step_key].tag = "dict"
       /\ \A g \in DeclaredGroups(step_key) :
              /\ g \in DOMAIN Selections(ud)[step_key].map
              /\ Selections(ud)[step_key].map[g] # None

\* C9: the validator returns true exactly when the step is auto, or declares
\* no radio group, or its stored selection is a radio mapping with a non-absent
\* value for every declared group; false in every other case.
C9_CanComplete ==
    last.op = "validate" => (ret.valid <=> CanComplete(user_data, ret.step_key))

\* step m0 of Scenario C validated with group g chosen and group h holding None
C9_Witness ==
    /\ last.op = "validate"
    /\ ret.step_key = "m0"
    /\ ~ret.valid
    /\ Selections(user_data) = Put(EmptyDict, "m0", Dict([g |-> "a", h |-> None]))

\* the radio buttons of a group of a step, in row-major declaration order
RECURSIVE GroupButtons(_, _)
GroupButtons(buttons, g) ==
    IF buttons = <<>> THEN <<>>
    ELSE IF Head(buttons).type = "radio" /\ Head(buttons).radioGroup = g
         THEN <<Head(buttons)>> \o GroupButtons(Tail(buttons), g)
         ELSE GroupButtons(Tail(buttons), g)

\* the value of the first declared radio button of the group
FirstValue(step_key, g) == GroupButtons(ButtonsOf(step_key), g)[1].value

\* the value of the first declared radio button of the group that has one
FirstNonNullValue(step_key, g) ==
    LET group_buttons == GroupButtons(ButtonsOf(step_key), g)
        with_value == {i \in 1..Len(group_buttons) : group_buttons[i].value # None}
    IN  IF with_value = {} THEN None
        ELSE group_buttons[CHOOSE i \in with_value : \A j \in with_value : i <= j].value

\* The last operation rendered step_key, and the entry the render found for it
\* is known: /start renders the first step on fresh state; an activation that
\* moved the pointer, or whose token was no click on the current step, renders
\* the step with the entry it had before the activation.
Rendered(step_key) ==
    /\ step_key # None
    /\ HasState(user_data)
    /\ CurrentStep(user_data) = step_key
    /\ ShowsStep(step_key)
    /\ \/ last.op = "start"
       \/ /\ last.op = "activate"
          /\ HasState(last.before)
          /\ \/ StepBefore # step_key
             \/ last.callback_data[1] \in {"back", "done"}
             \/ last.callback_data[1] # step_key

\* the entry of the step before the render (Scalar(None) when absent)
EntryBefore(step_key) ==
    IF last.op = "start" THEN Scalar(None)
    ELSE Get(SelectionsBefore, step_key, Scalar(None))

\* the value recorded for the group before the render (None when there is none)
ValueBefore(step_key, g) ==
    IF EntryBefore(step_key).tag = "dict" /\ g \in DOMAIN EntryBefore(step_key).map
    THEN EntryBefore(step_key).map[g]
    ELSE None

EntryAfter(step_key) == Get(Selections(user_data), step_key, Scalar(None))

\* the first declared value, and the first declared non-null value, per group
FirstValues(step_key) ==
    [g \in DeclaredGroups(step_key) |-> FirstValue(step_key, g)]
FirstNonNullValues(step_key) ==
    [g \in DeclaredGroups(step_key) |-> FirstNonNullValue(step_key, g)]

\* The effect of a render on the entry of the rendered step, defaults[g] being
\* what a group g without a recorded value receives.
PreSelected(step_key, defaults) ==
    IF IsManual(step_key) /\ DeclaredGroups(step_key) # {}
    THEN /\ EntryAfter(step_key).tag = "dict"
         /\ \A g \in DeclaredGroups(step_key) :
                /\ g \in DOMAIN EntryAfter(step_key).map
                /\ EntryAfter(step_key).map[g] =
                       IF ValueBefore(step_key, g) # None
                       THEN ValueBefore(step_key, g)
                       ELSE defaults[g]
    ELSE EntryAfter(step_key) = EntryBefore(step_key)

\* C10 as the specification states it: rendering a manual step with radio
\* groups stores, for every group without a recorded value, the value of the
\* first declared radio button of the group, and leaves the groups that have a
\* value untouched; other steps are not pre-selected.
C10_FirstDeclared ==
    \A k \in {CurrentStep(user_data)} : Rendered(k) => PreSelected(k, FirstValues(k))

\* C10: rendering a manual step with radio groups stores, for every group
\* without a recorded value, the value of the first declared radio button of
\* the group that has a non-null value (null when the group has none), and
\* leaves the groups that have a value untouched; an auto step is never
\* pre-selected.
C10_FirstWithValue ==
    \A k \in {CurrentStep(user_data)} : Rendered(k) => PreSelected(k, FirstNonNullValues(k))

\* /start rendered step m0 of Scenario C: group g received the value of its
\* second button, the first one having none
C10_Witness ==
    /\ last.op = "start"
    /\ Rendered("m0")
    /\ FirstValue("m0", "g") = None
    /\ EntryAfter("m0") = Dict([g |-> "a", h |-> "b"])

\* C11: radio pre-selection is idempotent: a step rendered a second time with
\* no activation in between has the selections the first render left.
C11_RenderIdempotent ==
    (last.op = "render" /\ last.renders >= 2) =>
        /\ Selections(user_data) = Selections(last.before)
        /\ CurrentStep(user_data) = CurrentStep(last.before)

\* step m0 of Scenario C rendered twice, the first render having replaced a
\* single value by the radio defaults
C11_Witness ==
    /\ last.op = "render"
    /\ last.renders = 2
    /\ CurrentStep(user_data) = "m0"
    /\ Selections(last.origin) = Put(EmptyDict, "m0", Scalar("p"))
    /\ Selections(last.before) = Put(EmptyDict, "m0", Dict([g |-> "a", h |-> "b"]))
    /\ Selections(user_data) = Selections(last.before)

\* the dict a step's entry holds ({} when the entry is absent or no dict)
MapOf(entry) == IF entry.tag = "dict" THEN entry.map ELSE EmptyDict

\* the entry of a step and its dict, as the last activation found them
EntryFound(step_key) == Get(SelectionsBefore, step_key, Scalar(None))
MapFound(step_key) == MapOf(EntryFound(step_key))
MapAfter(step_key) == MapOf(EntryAfter(step_key))

\* The effect of activating the radio button at (row, col) of step k, a button
\* with a group: the group holds the button's value, every other key of the
\* mapping that held a value still holds it, and when the group held the
\* button's value already the entry is as it was.
RadioSets(k, row, col) ==
    LET g == ButtonAt(k, row, col).radioGroup
        v == ButtonAt(k, row, col).value
    IN  /\ EntryAfter(k).tag = "dict"
        /\ g \in DOMAIN MapAfter(k)
        /\ MapAfter(k)[g] = v
        /\ \A other \in DOMAIN MapFound(k) \ {g} :
               MapFound(k)[other] # None =>
                   /\ other \in DOMAIN MapAfter(k)
                   /\ MapAfter(k)[other] = MapFound(k)[other]
        /\ (g \in DOMAIN MapFound(k) /\ MapFound(k)[g] = v) =>
               EntryAfter(k) = EntryFound(k)

\* C12 as the specification states it: activating a radio button with group g
\* and value v on the current step sets the step's mapping at g to v and
\* leaves the other groups unchanged; a second activation changes nothing.
C12_RadioSets ==
    \A pos \in Positions :
        \A k \in {StepBefore} :
            (/\ ClickedOn(k, pos[1], pos[2])
             /\ ButtonAt(k, pos[1], pos[2]).type = "radio"
             /\ ButtonAt(k, pos[1], pos[2]).radioGroup # None) =>
                RadioSets(k, pos[1], pos[2])

\* C12: the same for a radio button whose value is not null.
C12_RadioWithValueSets ==
    \A pos \in Positions :
        \A k \in {StepBefore} :
            (/\ ClickedOn(k, pos[1], pos[2])
             /\ ButtonAt(k, pos[1], pos[2]).type = "radio"
             /\ ButtonAt(k, pos[1], pos[2]).radioGroup # None
             /\ ButtonAt(k, pos[1], pos[2]).value # None) =>
                RadioSets(k, pos[1], pos[2])

\* Scenario A: the radio button blue activated while blue was selected
C12_Witness ==
    /\ started
    /\ ClickedOn("color", 0, 1)
    /\ MapFound("color") = [g |-> "blue"]
    /\ MapAfter("color") = [g |-> "blue"]

\* the checkbox selection an entry holds (empty when it is absent or no list)
CheckboxSet(entry) ==
    IF entry.tag = "list" THEN {entry.items[i] : i \in 1..Len(entry.items)} ELSE {}

\* user_data after the token of the last activation is activated once more
ActivatedAgain == process_callback_and_get_response(user_data, last.callback_data).ud

\* C13: activating a checkbox button of the current step toggles the membership
\* of its value in the step's checkbox selection and leaves the other members
\* alone, and activating it twice in a row gives back the checkbox selection
\* there was before, whatever other buttons the step declares.
C13_CheckboxInvolution ==
    \A pos \in Positions :
        \A k \in {StepBefore} :
            (/\ StartedClickOn(k, pos[1], pos[2])
             /\ ButtonAt(k, pos[1], pos[2]).type = "checkbox") =>
                LET v == ButtonAt(k, pos[1], pos[2]).value
                    found == CheckboxSet(EntryFound(k))
                    after == CheckboxSet(EntryAfter(k))
                IN  /\ v \in after <=> v \notin found
                    /\ after \ {v} = found \ {v}
                    /\ CheckboxSet(Get(Selections(ActivatedAgain), k, Scalar(None))) = found

\* the negation of a stored boolean
Negation(b) == IF b = True THEN False ELSE True

\* C14: activating a toggle button with value v stores the negation of its
\* current boolean, the stored one or, when none is stored, the button's
\* initialState; activated once more it holds the current boolean again.
C14_ToggleFlips ==
    \A pos \in Positions :
        \A k \in {StepBefore} :
            (/\ ClickedOn(k, pos[1], pos[2])
             /\ ButtonAt(k, pos[1], pos[2]).type = "toggle") =>
                LET v == ButtonAt(k, pos[1], pos[2]).value
                    current == Get(MapFound(k), v, ButtonAt(k, pos[1], pos[2]).initialState)
                    again == MapOf(Get(Selections(ActivatedAgain), k, Scalar(None)))
                IN  /\ EntryAfter(k).tag = "dict"
                    /\ v \in DOMAIN MapAfter(k)
                    /\ MapAfter(k)[v] = Negation(current)
                    /\ v \in DOMAIN again
                    /\ again[v] = current

\* Scenario D: the toggle t1, initially on and not stored yet, activated for
\* the first time
C14_Witness ==
    /\ started
    /\ ClickedOn("d0", 1, 0)
    /\ "t1" \notin DOMAIN MapFound("d0")
    /\ ButtonAt("d0", 1, 0).initialState = True
    /\ MapAfter("d0")["t1"] = False

\* C15: activating a radio, checkbox or toggle button never moves the pointer,
\* in auto steps as in manual ones, and the descriptor handed back is that of
\* the same step, not a terminal one.
C15_StatefulStays ==
    \A pos \in Positions :
        \A k \in {StepBefore} :
            (/\ ClickedOn(k, pos[1], pos[2])
             /\ ButtonAt(k, pos[1], pos[2]).type \in {"radio", "checkbox", "toggle"}) =>
                /\ CurrentStep(user_data) = k
                /\ ~ret.is_final_message
                /\ ShowsStep(k)

\* Scenario D: the radio button of the auto step d1, the last step, activated
C15_Witness ==
    /\ started
    /\ ClickedOn("d1", 0, 1)
    /\ ~IsManual("d1")
    /\ CurrentStep(user_data) = "d1"
    /\ MapAfter("d1") = [q |-> "v"]

\* the last operation was activate("back:<k>") by a user who had a current step
BackActivated(k) ==
    /\ last.op = "activate"
    /\ last.callback_data = <<"back", k>>
    /\ StepBefore # None

\* C16: for activate("back:<k>"): when k differs from currentStep the pointer
\* is unchanged; when k equals currentStep at index i > 0 the pointer moves to
\* index i-1; at index 0 it stays at index 0. A back activation never ends the
\* workflow: the state record stays and the descriptor is not final.
C16_BackMoves ==
    \A k \in TokenKeys :
        BackActivated(k) =>
            LET i == KeyIndex(StepBefore)
            IN  /\ CurrentStep(user_data) =
                       IF k # StepBefore THEN StepBefore
                       ELSE IF i > 0 THEN StepAt(i - 1)
                       ELSE StepAt(0)
                /\ HasState(user_data)
                /\ ~ret.is_final_message

\* Scenario C: back from the third step m2 (index 2) leads to m1, not to m0
C16_Witness ==
    /\ started
    /\ BackActivated("m2")
    /\ StepBefore = "m2"
    /\ CurrentStep(user_data) = "m1"

\* the step key a token embeds: after the prefix of a back or done token, the
\* first part of any other token
EmbeddedKey(callback_data) ==
    IF StartsWith(callback_data, "back") \/ StartsWith(callback_data, "done")
    THEN callback_data[2]
    ELSE callback_data[1]

\* a back or done token, or an option token of three parts
IsTokenForm(callback_data) ==
    \/ Len(callback_data) = 2 /\ callback_data[1] \in {"back", "done"}
    \/ Len(callback_data) = 3 /\ callback_data[1] \notin {"back", "done"}

\* the last operation was a stale activation: its token embeds another step
\* key than the one the user was on
StaleActivated ==
    /\ last.op = "activate"
    /\ StepBefore # None
    /\ IsTokenForm(last.callback_data)
    /\ EmbeddedKey(last.callback_data) # StepBefore

\* C17: a stale activation changes neither currentStep nor any selections
\* entry, and the descriptor handed back is the normal descriptor of the
\* current step, with the step's own text, whatever else the token contains.
C17_StaleIsSilent ==
    StaleActivated =>
        /\ CurrentStep(user_data) = StepBefore
        /\ Selections(user_data) = SelectionsBefore
        /\ ret = Returned(RenderCurrent(last.before))

\* row and column name a button the step declares
WithinDeclared(step_key, row, col) ==
    /\ 0 <= row /\ row < Len(ConfigOf(step_key).options)
    /\ 0 <= col /\ col < Len(ConfigOf(step_key).options[row + 1])

\* a malformed option token: not three parts, a row or column that is not an
\* integer, or, for the step the user is on, indices outside the declared
\* options (negative ones included)
Malformed(callback_data, step_key) ==
    /\ ~StartsWith(callback_data, "back")
    /\ ~StartsWith(callback_data, "done")
    /\ \/ Len(callback_data) # 3
       \/ /\ Len(callback_data) = 3
          /\ ~IsIntStr(callback_data[2]) \/ ~IsIntStr(callback_data[3])
       \/ /\ Len(callback_data) = 3
          /\ IsIntStr(callback_data[2]) /\ IsIntStr(callback_data[3])
          /\ callback_data[1] = step_key
          /\ ~WithinDeclared(step_key, ParseInt(callback_data[2]),
                             ParseInt(callback_data[3]))

MalformedActivated ==
    /\ last.op = "activate"
    /\ StepBefore # None
    /\ Malformed(last.callback_data, StepBefore)

\* C18: a malformed option activation records no selection and does not move
\* the pointer; the current step comes back with an internal-error text in
\* place of the step's own.
C18_MalformedRejected ==
    MalformedActivated =>
        /\ CurrentStep(user_data) = StepBefore
        /\ Selections(user_data) = SelectionsBefore
        /\ ret.text \in {MSG_INVALID_BUTTON_DATA, MSG_PROCESSING_ERROR}
        /\ ShowsStep(StepBefore)

\* the call ended in an exception that reached the caller
Escaped == "raised" \in DOMAIN ret

\* the last operation was an option, back or done activation met by a state
\* record whose currentStep is missing or names no declared step
CorruptActivated ==
    /\ last.op = "activate"
    /\ IsTokenForm(last.callback_data)
    /\ IsCorrupt(last.before)

\* C19: an activation that meets a missing or unknown currentStep resets the
\* user's state to NotStarted and hands back a state-lost descriptor (final,
\* no keyboard, one of the two restart texts); no exception reaches the caller.
C19_CorruptionResets ==
    CorruptActivated =>
        /\ ~Escaped
        /\ ~HasState(user_data)
        /\ ret.is_final_message
        /\ ret.reply_markup = NoMarkup
        /\ ret.text \in {MSG_STATE_LOST, MSG_STEP_CONFIG_MISSING}

\* The rule of _get_next_step_key seen from outside, for an advance from
\* step_key with skip steps skipped: the workflow ends exactly when
\* index+1+skip is no step index; then the pointer is absent and the
\* descriptor is the terminal one (no keyboard, the completion text, the
\* snapshot of the selections); otherwise the pointer is at index+1+skip.
EndRule(step_key, skip) ==
    LET target == KeyIndex(step_key) + 1 + skip
    IN  /\ ret.is_final_message <=> target \notin 0..(NumSteps - 1)
        /\ ret.is_final_message =>
               /\ CurrentStep(user_data) = None
               /\ IsTerminal
               /\ ret.text = MSG_COMPLETED
               /\ ret.final_selections = Selections(user_data)
        /\ ~ret.is_final_message => CurrentStep(user_data) = StepAt(target)

\* C20: the skip path, the auto-advance path and the manual-done path detect
\* the end of the workflow by one rule: the workflow ends exactly when
\* index+1+skip is not a valid step index, and each path then leaves the same
\* Ended state (currentStep absent, terminal descriptor with the selections
\* snapshot, no keyboard).
C20_OneEndRule ==
    \A k \in {StepBefore} :
        /\ \A pos \in Positions :
               /\ (/\ ClickedOn(k, pos[1], pos[2])
                   /\ ButtonAt(k, pos[1], pos[2]).type = "skip") =>
                       EndRule(k, ButtonAt(k, pos[1], pos[2]).skipSteps)
               /\ (/\ ClickedOn(k, pos[1], pos[2])
                   /\ ButtonAt(k, pos[1], pos[2]).type = None
                   /\ ~IsManual(k)) =>
                       EndRule(k, 0)
        /\ (DoneOn(k) /\ AcceptedBefore(k)) => EndRule(k, 0)

\* Scenario C: done accepted on the last step m2, a manual step, ended the
\* workflow with the radio choice of m2 in the snapshot
C20_Witness ==
    /\ started
    /\ DoneOn("m2")
    /\ IsManual("m2")
    /\ AcceptedBefore("m2")
    /\ IsTerminal
    /\ CurrentStep(user_data) = None
    /\ "m2" \in DOMAIN ret.final_selections

C22_UnusableAfterBadFile ==
    Unusable(last.workflow_data) =>
        /\ ~is_initialized
        /\ ~last.polling
        /\ user_data = last.before
        /\ last.op = "start" =>
               ret.text = MSG_START_NOT_INITIALIZED /\ ret.reply_markup = NoMarkup
        /\ last.op = "activate" =>
               ret.text = MSG_CLICK_NOT_INITIALIZED /\ ret.reply_markup = NoMarkup

\* an activation sent to a manager built from the empty mapping, by a user
\* whose context holds a record: the record is as it was
C22_Witness ==
    /\ last.workflow_data = EmptyMapping
    /\ last.op = "activate"
    /\ last.callback_data = <<"back", UnknownKey>>
    /\ HasState(user_data)
    /\ CurrentStep(user_data) = "color"
    /\ ret.text = MSG_CLICK_NOT_INITIALIZED

\* the last operation was start() on an initialised manager
StartCalled == last.op = "start" /\ is_initialized

\* the descriptor that ends a workflow: no keyboard, the completion text, the
\* snapshot of the selections
CompletionDescriptor ==
    /\ ret.reply_markup = NoMarkup
    /\ ret.text = MSG_COMPLETED
    /\ ret.final_selections = Selections(user_data)

\* C23: start() on a definition with zero steps ends the workflow at once and
\* hands back the terminal descriptor; on a definition with steps it never
\* hands back a terminal descriptor.
C23_StartTerminalIffNoSteps ==
    StartCalled =>
        /\ NumSteps = 0 => CurrentStep(user_data) = None /\ CompletionDescriptor
        /\ NumSteps > 0 => ret.reply_markup # NoMarkup /\ ret.text # MSG_COMPLETED

\* C24: nextStepKey and previousStepKey are inverse along the step order: for
\* declared step keys a and b, nextStepKey(a, 0) = b exactly when
\* previousStepKey(b) = a.
C24_NextPreviousInverse ==
    last.op = "lookup" =>
        /\ ret.next = ret.b => ret.previous = ret.a
        /\ ret.previous = ret.a => ret.next = ret.b

\* a pair of neighbours in a chain of more than two steps
C24_Witness ==
    /\ last.op = "lookup"
    /\ NumSteps > 2
    /\ ret.a = "k2"
    /\ ret.b = "k3"
    /\ ret.next = "k3"
    /\ ret.previous = "k2"

\* the representation _update_selection stores for a button of this type: a
\* dict for radio (group to value) and toggle (value to boolean), a list for
\* checkbox, the value itself for plain and skip buttons
ShapeOfType(button_type) ==
    IF button_type \in {"radio", "toggle"} THEN "dict"
    ELSE IF button_type = "checkbox" THEN "list"
    ELSE "scalar"

\* the representations that fit the buttons a step declares
DeclaredShapes(step_key) ==
    {ShapeOfType(ButtonsOf(step_key)[i].type) : i \in 1..Len(ButtonsOf(step_key))}

\* C25: in every reachable state the value stored for a step has a shape that
\* fits a button kind the step declares (a mapping for radio buttons and for
\* toggles, a collection for checkboxes), and an activation never replaces the
\* stored value of a step by one of another shape.
C25_ShapeConsistent ==
    \A k \in TokenKeys :
        k \in DOMAIN Selections(user_data) =>
            /\ Selections(user_data)[k].tag \in DeclaredShapes(k)
            /\ (last.op = "activate" /\ k \in DOMAIN SelectionsBefore) =>
                   Selections(user_data)[k].tag = SelectionsBefore[k].tag

\* C26: the snapshot get_user_selections returned is independent of the live
\* state: a change the caller makes to the mapping or to a per-step value
\* inside it leaves the stored selections as they were, and a later activation
\* leaves a snapshot already returned as it was.
C26_SnapshotIndependent ==
    /\ last.op \in {"caller_value", "caller_mapping"} =>
           Resolve(user_data.heap, user_data.selections) = last.stored
    /\ (last.op = "click" /\ ret.taken) =>
           SnapshotContent(user_data, ret.snapshot) = last.snapshot

\* the keyboard handed back holds a button with this callback data
HasButton(callback_data) ==
    /\ ret.reply_markup.kind = "InlineKeyboardMarkup"
    /\ \E r \in 1..Len(ret.reply_markup.inline_keyboard) :
           \E c \in 1..Len(ret.reply_markup.inline_keyboard[r]) :
               ret.reply_markup.inline_keyboard[r][c].callback_data = callback_data

KeyboardReturned(step_key) ==
    /\ last.op \in {"start", "activate"}
    /\ step_key # None
    /\ CurrentStep(user_data) = step_key
    /\ ShowsStep(step_key)

\* the glyph shown on the option button at (row, col)
Glyph(row, col) == ret.reply_markup.inline_keyboard[row + 1][col + 1].emoji

\* the button is one the step declares
Declared(step_key, row, col) ==
    /\ row < Len(ConfigOf(step_key).options)
    /\ col < Len(ConfigOf(step_key).options[row + 1])

\* the stored selections map the radio button's group to its value
StoredRadio(step_key, button_config) ==
    /\ EntryAfter(step_key).tag = "dict"
    /\ button_config.radioGroup \in DOMAIN EntryAfter(step_key).map
    /\ EntryAfter(step_key).map[button_config.radioGroup] = button_config.value

\* the checkbox's value is in the stored collection
StoredCheckbox(step_key, button_config) ==
    /\ EntryAfter(step_key).tag = "list"
    /\ ListHas(EntryAfter(step_key).items, button_config.value)

\* the toggle's stored boolean, its initialState when none is stored
StoredToggle(step_key, button_config) ==
    IF /\ EntryAfter(step_key).tag = "dict"
       /\ button_config.value \in DOMAIN EntryAfter(step_key).map
    THEN EntryAfter(step_key).map[button_config.value]
    ELSE button_config.initialState

\* the positions of the radio buttons of a group, and whether their values
\* are pairwise distinct
GroupPositions(step_key, g) ==
    {pos \in Positions :
        /\ Declared(step_key, pos[1], pos[2])
        /\ ButtonAt(step_key, pos[1], pos[2]).type = "radio"
        /\ ButtonAt(step_key, pos[1], pos[2]).radioGroup = g}
DistinctValues(step_key, g) ==
    \A p \in GroupPositions(step_key, g), q \in GroupPositions(step_key, g) :
        p # q => ButtonAt(step_key, p[1], p[2]).value # ButtonAt(step_key, q[1], q[2]).value

\* state and view agree on the button at (row, col)
GlyphMatchesState(step_key, row, col) ==
    LET button_config == ButtonAt(step_key, row, col)
    IN  /\ button_config.type = "radio" =>
               (Glyph(row, col) = RADIO_SELECTED <=> StoredRadio(step_key, button_config))
        /\ button_config.type = "checkbox" =>
               (Glyph(row, col) = CHECKBOX_SELECTED
                    <=> StoredCheckbox(step_key, button_config))
        /\ button_config.type = "toggle" =>
               (Glyph(row, col) = TOGGLE_ON
                    <=> StoredToggle(step_key, button_config) = True)

\* every group of a manual step whose buttons have distinct values shows
\* exactly one button selected
OneSelectedPerGroup(step_key) ==
    IsManual(step_key) =>
        \A g \in DeclaredGroups(step_key) :
            DistinctValues(step_key, g) =>
                Cardinality({pos \in GroupPositions(step_key, g) :
                                 Glyph(pos[1], pos[2]) = RADIO_SELECTED}) = 1

\* C28: in every descriptor start() or activate() hands back, a radio button
\* is shown selected exactly when the selections stored at return time map its
\* group to its value, a checkbox exactly when its value is in the stored
\* collection, a toggle is shown on exactly when its stored boolean (its
\* initialState when none is stored) is true; in a rendered manual step every
\* radio group with distinct button values has exactly one button selected.
C28_ViewMatchesState ==
    \A k \in {CurrentStep(user_data)} :
        KeyboardReturned(k) =>
            /\ \A pos \in Positions :
                   Declared(k, pos[1], pos[2]) => GlyphMatchesState(k, pos[1], pos[2])
            /\ OneSelectedPerGroup(k)

--------------------------------------------------------------------------
\* the last operation activated, through its rendered token, a radio button of
\* the user's step that declares no radioGroup
GrouplessRadioActivated(step_key, row, col) ==
    /\ last.op = "activate"
    /\ is_initialized
    /\ step_key # None
    /\ _get_user_current_step_key(last.before) = step_key
    /\ last.callback_data = <<step_key, IntStr(row), IntStr(col)>>
    /\ HasStepConfig(step_key)
    /\ Declared(step_key, row, col)
    /\ ButtonAt(step_key, row, col).type = "radio"
    /\ ~Truthy(ButtonAt(step_key, row, col).radioGroup)

--------------------------------------------------------------------------
\* the keys of the definition's step list
DeclaredKeys == {workflow_steps[i].key : i \in 1..Len(workflow_steps)}

\* C30: in every state reachable by start() and any sequence of activations,
\* currentStep is absent or a key of the definition's step list; no operation
\* stores a pointer to a step the definition does not declare.
C30_PointerDeclared ==
    CurrentStep(user_data) = None \/ CurrentStep(user_data) \in DeclaredKeys

\* a skip button moved the pointer of a started run over a step: the key stored
\* is the declared key two places on
C30_Witness ==
    /\ started
    /\ last.op = "activate"
    /\ StepBefore \in DeclaredKeys
    /\ CurrentStep(user_data) \in DeclaredKeys
    /\ KeyIndex(CurrentStep(user_data)) = KeyIndex(StepBefore) + 2

--------------------------------------------------------------------------
\* the step keys whose selections entry differs between the state before the
\* last operation and the state after it (added, removed or replaced)
ChangedEntries ==
    {k \in DOMAIN Selections(user_data) \cup DOMAIN SelectionsBefore :
         \/ (k \in DOMAIN Selections(user_data)) # (k \in DOMAIN SelectionsBefore)
         \/ /\ k \in DOMAIN Selections(user_data) \cap DOMAIN SelectionsBefore
            /\ Selections(user_data)[k] # SelectionsBefore[k]}

\* C31: every key of the selections mapping is a declared step key, and an
\* activation changes the entry of no step other than the one that was current
\* before it and the one that is current after it.
C31_SelectionsFrame ==
    /\ DOMAIN Selections(user_data) \subseteq DeclaredKeys
    /\ last.op = "activate" =>
           ChangedEntries \subseteq
               {_get_user_current_step_key(last.before), CurrentStep(user_data)}

--------------------------------------------------------------------------
\* the last activation was one of the forward moves on step k: a plain button
\* of an auto step, a skip button, or a done the validator accepted
ForwardActivated(k) ==
    \/ \E pos \in Positions :
           /\ ClickedOn(k, pos[1], pos[2])
           /\ \/ ButtonAt(k, pos[1], pos[2]).type = "skip"
              \/ ButtonAt(k, pos[1], pos[2]).type = None /\ ~IsManual(k)
    \/ DoneOn(k) /\ AcceptedBefore(k)

\* such an activation put the pointer on a later step or ended the workflow
MovesForward(k) ==
    ForwardActivated(k) =>
        \/ CurrentStep(user_data) = None /\ ret.is_final_message
        \/ /\ CurrentStep(user_data) \in DeclaredKeys
           /\ KeyIndex(CurrentStep(user_data)) > KeyIndex(k)

\* a run without a back activation makes at most n pointer moves
MovesBounded == (started /\ ~last.backs) => last.moves <= NumSteps

\* C32 as stated: every back activation for the current step lowers the index
\* of currentStep by exactly one.
C32_BackAlwaysDecreases ==
    \A k \in {StepBefore} :
        /\ MovesForward(k)
        /\ MovesBounded
        /\ (BackActivated(k) /\ k \in DeclaredKeys) =>
               /\ CurrentStep(user_data) \in DeclaredKeys
               /\ KeyIndex(CurrentStep(user_data)) = KeyIndex(k) - 1

\* C32: every forward activation (plain in an auto step, skip, accepted done)
\* strictly increases the index of currentStep or ends the workflow; a back
\* activation for the current step lowers the index by exactly one, except on
\* the first step, where the pointer stays; a run of an n-step workflow without
\* a back activation makes at most n pointer moves before it has ended.
C32_Progress ==
    \A k \in {StepBefore} :
        /\ MovesForward(k)
        /\ MovesBounded
        /\ (BackActivated(k) /\ k \in DeclaredKeys) =>
               /\ CurrentStep(user_data) \in DeclaredKeys
               /\ KeyIndex(CurrentStep(user_data)) =
                      IF KeyIndex(k) > 0 THEN KeyIndex(k) - 1 ELSE 0

\* Scenario B: a run without back went s0 -> s1 -> s2 -> s3 and ended there by
\* a plain button, its fourth pointer move
C32_Witness ==
    /\ NumSteps = 4
    /\ ~last.backs
    /\ last.moves = 4
    /\ ended
    /\ ForwardActivated("s3")
    /\ CurrentStep(user_data) = None

--------------------------------------------------------------------------
\* the step is manual, declares radio groups, and every one of its groups has a
\* button with a value
EveryGroupHasValue(step_key) ==
    /\ step_key \in DeclaredKeys
    /\ IsManual(step_key)
    /\ DeclaredGroups(step_key) # {}
    /\ \A g \in DeclaredGroups(step_key) : FirstNonNullValue(step_key, g) # None

--------------------------------------------------------------------------
\* the value recorded for a radio group of a step in a user state (None when
\* the step's entry is no mapping or has no such group)
RadioChoice(ud, step_key, g) ==
    LET entry == Get(Selections(ud), step_key, Scalar(None))
    IN  IF entry.tag = "dict" /\ g \in DOMAIN entry.map THEN entry.map[g] ELSE None

\* C34: the recorded value of a radio group of a step changes only when a radio
\* button of that group is activated: activating a plain, checkbox, toggle,
\* skip or finish button of the step, or a radio button of another group,
\* leaves every radio choice recorded for the step as it was.
C34_RadioChoiceKept ==
    \A k \in {StepBefore} :
        \A pos \in Positions :
            ClickedOn(k, pos[1], pos[2]) =>
                \A g \in DeclaredGroups(k) :
                    (/\ RadioChoice(last.before, k, g) # None
                     /\ ~(/\ ButtonAt(k, pos[1], pos[2]).type = "radio"
                          /\ ButtonAt(k, pos[1], pos[2]).radioGroup = g)) =>
                        RadioChoice(user_data, k, g) = RadioChoice(last.before, k, g)

--------------------------------------------------------------------------
\* C35: a back activation never changes selections: after activate("back:<k>")
\* every step's selections entry equals its entry before the call, also when
\* the step moved back to was bypassed by a skip and has not been rendered.
C35_BackKeepsSelections ==
    \A k \in TokenKeys :
        (BackActivated(k) /\ HasState(last.before)) =>
            Selections(user_data) = SelectionsBefore

--------------------------------------------------------------------------
\* C36: while the user is NotStarted (no state record: start() was never
\* called, or the record was reset after a state-lost condition), an
\* activation records no selection and does not place the user on a step.
C36_NotStartedStays ==
    (last.op = "activate" /\ ~HasState(last.before)) =>
        /\ Selections(user_data) = EmptyDict
        /\ CurrentStep(user_data) = None

--------------------------------------------------------------------------
\* C37: when a pointer-moving token (a plain button of an auto step, a skip
\* button, an accepted done) is delivered a second time right after the first
\* delivery, the second delivery leaves currentStep and selections exactly as
\* the first delivery left them.
C37_DoubleTapIsStale ==
    \A k \in {StepBefore} :
        ForwardActivated(k) =>
            /\ CurrentStep(ActivatedAgain) = CurrentStep(user_data)
            /\ Selections(ActivatedAgain) = Selections(user_data)

--------------------------------------------------------------------------
\* the tokens of the keyboard handed back, row by row
KeyboardOf == ret.reply_markup.inline_keyboard

\* the response to the token of the keyboard's button at (row, col), activated
\* as the next activation
NextActivation(row, col) ==
    process_callback_and_get_response(user_data, KeyboardOf[row][col].callback_data)

\* C38: every token of a rendered descriptor, activated as the next activation,
\* resolves to the control it was rendered for: an option token of button
\* (row, col) of step k is processed as a click on that button, the done token
\* as completion of k, the back token as back from k, whatever the step key is.
C38_TokenRoundTrip ==
    \A k \in {CurrentStep(user_data)} :
        KeyboardReturned(k) =>
            \A row \in 1..Len(KeyboardOf) :
                \A col \in 1..Len(KeyboardOf[row]) :
                    LET token == KeyboardOf[row][col].callback_data
                    IN  IF row <= Len(ConfigOf(k).options)
                        THEN NextActivation(row, col) =
                                 ClickButton(user_data, k, ConfigOf(k),
                                             ButtonAt(k, row - 1, col - 1))
                        ELSE IF token = <<"done", k>>
                        THEN NextActivation(row, col) = HandleDone(user_data, k, token)
                        ELSE /\ token = <<"back", k>>
                             /\ NextActivation(row, col) = HandleBack(user_data, k, token)

--------------------------------------------------------------------------
\* the pointer each engine holds for the user
InlineStep == CurrentStep(user_data.inline)
ModuleStep ==
    IF ChatId \in DOMAIN user_data.module THEN user_data.module[ChatId].current_step
    ELSE None

\* the last operation was an activation of a run that began with a fresh start
\* and had not ended before it
LiveActivation == started /\ last.op = "activate"

\* C39: run side by side on one definition from a fresh start and given the
\* same activations, the two engines hold the same currentStep after every
\* activation up to and including the one that ends the workflow, and report
\* the end on the same activation.
C39_EnginesAgree ==
    LiveActivation =>
        /\ InlineStep = ModuleStep
        /\ ret.inline.is_final_message = ret.is_workflow_end

====
